---- MODULE Spec2Model ----
(***************************************************************************)
(* Skill Forge API: the three in-memory stores (users, courses, payments)  *)
(* and the request handlers that read and write them.  A handler is an     *)
(* async function: each `await` is a point where another request's handler *)
(* may run, so a handler with a store read, an await and a store write is  *)
(* several steps here, with its local variables kept in a frame.           *)
(* Prices are in cents (99.99 is 9999), as the payment service rounds them.*)
(* Records carry createdAt and updatedAt, read from a millisecond clock    *)
(* that advances only in the specifications that include Tick.            *)
(***************************************************************************)
EXTENDS Integers, Sequences, FiniteSets, Bags, TLC

\* ------------------------------------------------------------- bounds
\* requests whose handlers may be in flight at once
MaxInflight == 2
\* courses created over a run, besides the two demo courses
MaxNewCourses == 1
\* signup requests accepted over a run
MaxSignups == 2
\* payment intents opened over a run
MaxPayments == 2
\* milliseconds the clock may advance
MaxClock == 2
\* courses in the catalogue when it is listed page by page
MaxListed == 25

\* ------------------------------------------------------------- values
\* a destructured body field that the request did not carry
Undefined == -1

STUDENT == "student"
INSTRUCTOR == "instructor"
ADMIN == "admin"
UserRole == {STUDENT, INSTRUCTOR, ADMIN}

PENDING == "pending"
SUCCEEDED == "succeeded"
FAILED == "failed"
CANCELED == "canceled"
REFUNDED == "refunded"
PaymentStatus == {PENDING, SUCCEEDED, FAILED, CANCELED, REFUNDED}

\* the demo courses' instructorId 'instructor_1' is no user's id
DemoInstructorId == 0
DemoPrice1 == 9999
DemoPrice2 == 14999
DemoEnrollment1 == 5000
DemoEnrollment2 == 2500
\* ratings in tenths (4.8 is 48)
DemoRating1 == 48
DemoRating2 == 49

\* request inputs
Prices == {0, 2500}
TagSets == {{"dev"}}
\* the title of the create requests
NewTitle == "Intro to TLA"
NoPid == 0
NoToken == [userId |-> 0, role |-> "none"]

VARIABLES
  users,      \* UserModel's map: id -> [email, role, progress, password, bio, createdAt, updatedAt];
              \*   progress is the list of the user's CourseProgress records
  courses,    \* CourseModel's map: id -> [title, instructorId, price, isPublished, enrollmentCount, tags,
              \*   thumbnail, rating, createdAt, updatedAt]
  payments,   \* PaymentModel's map in insertion order: [userId, courseId, status, stripePaymentIntentId]
  issued,     \* the token payloads signed so far: userId -> role
  nextCourse, \* the next fresh course id
  inflight,   \* the bag of frames of the handlers suspended at an await
  last,       \* the last response sent: [op, code, message, body]
  enrolledOk, \* the (user, course) pairs whose enroll request was answered with success
  now         \* the clock new Date() reads, in milliseconds since the process started

vars == <<users, courses, payments, issued, nextCourse, inflight, last, enrolledOk, now>>

\* ------------------------------------------------------------- stores
\* bcrypt.hash: the stored form of a password, never the password itself
Hash(password) == "$2a$" \o password

DemoUsers ==
  (1 :> [email |-> "admin@skillforge.com", role |-> ADMIN, progress |-> <<>>,
        password |-> Hash("password"), bio |-> "System administrator",
        createdAt |-> 0, updatedAt |-> 0]) @@
  (2 :> [email |-> "instructor@skillforge.com", role |-> INSTRUCTOR, progress |-> <<>>,
        password |-> Hash("password"), bio |-> "Experienced software developer and instructor",
        createdAt |-> 0, updatedAt |-> 0]) @@
  (3 :> [email |-> "student@skillforge.com", role |-> STUDENT, progress |-> <<>>,
        password |-> Hash("password"), bio |-> "Aspiring web developer",
        createdAt |-> 0, updatedAt |-> 0])

DemoCourses ==
  (1 :> [title |-> "Complete Web Development Bootcamp",
         instructorId |-> DemoInstructorId, price |-> DemoPrice1, isPublished |-> TRUE,
         enrollmentCount |-> DemoEnrollment1, tags |-> {"web", "dev"},
         thumbnail |-> "photo-270348.jpeg", rating |-> DemoRating1,
         createdAt |-> 0, updatedAt |-> 0]) @@
  (2 :> [title |-> "Advanced React Development",
         instructorId |-> DemoInstructorId, price |-> DemoPrice2, isPublished |-> TRUE,
         enrollmentCount |-> DemoEnrollment2, tags |-> {"react", "dev"},
         thumbnail |-> "photo-11035380.jpeg", rating |-> DemoRating2,
         createdAt |-> 0, updatedAt |-> 0])

\* { ...record, ...updates }
Merge(rec, upd) ==
  [k \in DOMAIN rec \cup DOMAIN upd |-> IF k \in DOMAIN upd THEN upd[k] ELSE rec[k]]

Remove(store, id) == [k \in DOMAIN store \ {id} |-> store[k]]

\* an update that rebuilds the record from the creation defaults, losing the
\* enrollments counted so far
CourseUpdateResetting(cs, id, updates) ==
  IF id \in DOMAIN cs
  THEN [cs EXCEPT ![id] = Merge(Merge(cs[id], updates), [enrollmentCount |-> 0, updatedAt |-> now])]
  ELSE cs

\* an update that takes the course back to draft unless the request publishes it
CourseUpdateUnpublishing(cs, id, updates) ==
  IF id \in DOMAIN cs
  THEN [cs EXCEPT ![id] = Merge(Merge(cs[id], [isPublished |-> FALSE]),
                                Merge(updates, [updatedAt |-> now]))]
  ELSE cs

\* CourseModel.update: null (no change) for an unknown id
CourseUpdate(cs, id, updates) ==
  IF id \in DOMAIN cs
  THEN [cs EXCEPT ![id] = Merge(Merge(cs[id], updates), [updatedAt |-> now])]
  ELSE cs

CourseDelete(cs, id) == Remove(cs, id)

\* CourseModel.updateRating (reviewCount is not kept)
UpdateRating(cs, courseId, newRating) ==
  IF courseId \in DOMAIN cs
  THEN [cs EXCEPT ![courseId].rating = newRating, ![courseId].updatedAt = now]
  ELSE cs

\* an increment that counts an enrollment twice
IncrementEnrollmentTwice(cs, courseId) ==
  IF courseId \in DOMAIN cs
  THEN [cs EXCEPT ![courseId].enrollmentCount = cs[courseId].enrollmentCount + 2,
                  ![courseId].updatedAt = now]
  ELSE cs

IncrementEnrollment(cs, courseId) ==
  IF courseId \in DOMAIN cs
  THEN [cs EXCEPT ![courseId].enrollmentCount = cs[courseId].enrollmentCount + 1,
                  ![courseId].updatedAt = now]
  ELSE cs

\* a lookup that never finds the course's progress record
ProgressIndexBlind(progress, courseId) == 0

\* the index of the first progress record of the course, 0 when there is none
ProgressIndex(progress, courseId) ==
  IF \E i \in DOMAIN progress : progress[i].courseId = courseId
  THEN CHOOSE i \in DOMAIN progress :
         /\ progress[i].courseId = courseId
         /\ \A j \in DOMAIN progress : progress[j].courseId = courseId => i <= j
  ELSE 0

\* UserModel.update: null (no change) for an unknown id
UserUpdate(us, id, updates) ==
  IF id \in DOMAIN us
  THEN [us EXCEPT ![id] = Merge(Merge(us[id], updates), [updatedAt |-> now])]
  ELSE us

\* an updateProgress that pushes a record without looking for an existing one
UserUpdateProgressPushing(us, userId, courseId, progress) ==
  IF userId \notin DOMAIN us THEN us
  ELSE [us EXCEPT ![userId].progress =
                    Append(@, Merge([courseId |-> courseId, enrolledAt |-> now,
                                     completedModules |-> 0, progressPercentage |-> 0,
                                     lastAccessedAt |-> now], progress)),
                  ![userId].updatedAt = now]

\* UserModel.updateProgress: merge into the course's record, or push a new one
UserUpdateProgress(us, userId, courseId, progress) ==
  IF userId \notin DOMAIN us THEN us
  ELSE LET old == us[userId].progress
           i == ProgressIndex(old, courseId)
           fresh == [courseId |-> courseId, enrolledAt |-> now, completedModules |-> 0,
                     progressPercentage |-> 0, lastAccessedAt |-> now]
       IN IF i > 0
          THEN [us EXCEPT ![userId].progress = [old EXCEPT ![i] = Merge(old[i], progress)],
                          ![userId].updatedAt = now]
          ELSE [us EXCEPT ![userId].progress = Append(old, Merge(fresh, progress)),
                          ![userId].updatedAt = now]

\* the progress record enrollInCourse writes
Enrollment(courseId) ==
  [courseId |-> courseId, enrolledAt |-> now, completedModules |-> 0,
   progressPercentage |-> 0, lastAccessedAt |-> now]

\* PaymentModel.findByStripeId: the index of the first match, 0 when there is none
FindByStripeId(ps, stripeId) ==
  IF \E i \in DOMAIN ps : ps[i].stripePaymentIntentId = stripeId
  THEN CHOOSE i \in DOMAIN ps :
         /\ ps[i].stripePaymentIntentId = stripeId
         /\ \A j \in DOMAIN ps : ps[j].stripePaymentIntentId = stripeId => i <= j
  ELSE 0

\* PaymentModel.findSuccessfulPayment
FindSuccessfulPayment(ps, userId, courseId) ==
  \E i \in DOMAIN ps :
    /\ ps[i].userId = userId
    /\ ps[i].courseId = courseId
    /\ ps[i].status = SUCCEEDED

\* PaymentModel.update: null (no change) for an unknown id
PaymentUpdate(ps, i, updates) ==
  IF i \in DOMAIN ps
  THEN [ps EXCEPT ![i] = Merge(Merge(ps[i], updates), [updatedAt |-> now])]
  ELSE ps

\* ------------------------------------------------------------- tokens
\* Every account that has existed can present a token carrying its id and
\* role: login needs only the account, and a token stays valid after the
\* account is deleted (authenticate verifies the signature, not the store).
Tokens == {[userId |-> u, role |-> issued[u]] : u \in DOMAIN issued}
Callers == Tokens \cup {NoToken}

\* authenticate: 401 without a valid bearer token
Authenticate(t) == t # NoToken

RequireInstructorOrAdmin(t) == t.role = INSTRUCTOR \/ t.role = ADMIN

\* an ownership test that lets every instructor through
OwnsOrAdminLax(course, t) == TRUE

\* the ownership test of updateCourse, deleteCourse and publishCourse
OwnsOrAdmin(course, t) == course.instructorId = t.userId \/ t.role = ADMIN

\* requireOwnership(resourceIdParam) on a request whose parameter of that name
\* is resourceId: the status it answers with, 0 when it calls next()
RequireOwnership(resourceIdParam, t, resourceId) ==
  IF ~Authenticate(t) THEN 401
  ELSE IF t.role = ADMIN THEN 0
  ELSE IF resourceIdParam \in {"userId", "id"} /\ resourceId # t.userId THEN 403
  ELSE 0

\* ------------------------------------------------------------- frames
Frame(op, pc, t, cid, pid) ==
  [op |-> op, pc |-> pc, uid |-> t.userId, role |-> t.role, cid |-> cid, pid |-> pid,
   found |-> FALSE, pub |-> FALSE, price |-> 0, ufound |-> FALSE, gone |-> FALSE,
   orphan |-> <<>>, email |-> "", param |-> "", snap |-> <<>>]

Frames == BagToSet(inflight)
Suspend(f) == inflight (+) SetToBag({f})
Resume(f, g) == (inflight (-) SetToBag({f})) (+) SetToBag({g})
Finish(f) == inflight (-) SetToBag({f})

\* the JSON bodies sendSuccess and sendError write (data is kept beside the body)
SendSuccess(message) == [success |-> TRUE, message |-> message]
SendError(error) == [success |-> FALSE, error |-> error]

\* a response: the handler that sent it, the status code and the body
Response(op, code, message) ==
  [op |-> op, code |-> code, message |-> message,
   body |-> IF code = 200 THEN SendSuccess(message) ELSE SendError(message)]

Init ==
  /\ users = DemoUsers
  /\ courses = DemoCourses
  /\ payments = <<>>
  /\ issued = [u \in DOMAIN DemoUsers |-> DemoUsers[u].role]
  /\ nextCourse = 3
  /\ inflight = EmptyBag
  /\ last = Response("none", 0, "")
  /\ enrolledOk = {}
  /\ now = 1

Reply(op, code, message) == last' = Response(op, code, message)

\* res.status(code).json(body) with a body the handler builds itself
ReplyJson(op, code, message, body) ==
  last' = [op |-> op, code |-> code, message |-> message, body |-> body]

\* sendSuccess with a data block
ReplyWith(op, code, message, data) ==
  last' = Merge(Response(op, code, message), [data |-> data])

\* an object literal built from the named fields of a record
Pick(rec, keys) == [k \in keys \cap DOMAIN rec |-> rec[k]]

\* the profile a handler builds field by field while copying the stored
\* password along
ProfileWithPassword(user, id, keys) ==
  Pick(Merge(user, [id |-> id]), keys \cup {"password"})

\* the userProfile literal of the auth and user controllers
Profile(user, id, keys) == Pick(Merge(user, [id |-> id]), keys)

\* the fields of signup's and login's userProfile, and of getProfile's and
\* updateProfile's (names, avatar, skills and preferences are not kept)
AuthProfileKeys == {"id", "email", "role", "createdAt", "updatedAt"}
UserProfileKeys == AuthProfileKeys \cup {"bio"}

\* generateTokenPair: both tokens carry the payload
TokenPair(user, id) ==
  LET payload == [userId |-> id, email |-> user.email, role |-> user.role]
  IN [accessToken |-> payload, refreshToken |-> payload]

CourseIds == 1..(2 + MaxNewCourses)
NewCourseIds == 3..(2 + MaxNewCourses)
UpdateBodies == {<<>>} \cup {[price |-> p] : p \in Prices}

\* what an awaited provider call may do besides returning
Throws == "throws"

\* a millisecond passes between two steps of the program
Tick ==
  /\ now < 1 + MaxClock
  /\ now' = now + 1
  /\ UNCHANGED <<users, courses, payments, issued, nextCourse, inflight, last, enrolledOk>>

\* ------------------------------------------------------------- courses
\* POST /courses: authenticate, requireInstructorOrAdmin, createCourse
CreateCourse(lim, t, price, tags) ==
  /\ BagCardinality(inflight) < lim
  /\ (RequireInstructorOrAdmin(t) /\ t.userId \in DOMAIN users) => nextCourse <= 2 + MaxNewCourses
  /\ UNCHANGED <<now, users, payments, issued, inflight, enrolledOk>>
  /\ IF ~Authenticate(t)
     THEN Reply("createCourse", 401, "Access token required") /\ UNCHANGED <<courses, nextCourse>>
     ELSE IF ~RequireInstructorOrAdmin(t)
     THEN Reply("createCourse", 403, "Instructor or admin access required") /\ UNCHANGED <<courses, nextCourse>>
     ELSE IF t.userId \notin DOMAIN users
     THEN Reply("createCourse", 404, "Instructor not found") /\ UNCHANGED <<courses, nextCourse>>
     ELSE /\ courses' = courses @@
               (nextCourse :> [title |-> NewTitle, instructorId |-> t.userId, price |-> price,
                               isPublished |-> FALSE, enrollmentCount |-> 0, tags |-> tags,
                               thumbnail |-> "photo-270348.jpeg", rating |-> 0,
                               createdAt |-> now, updatedAt |-> now])
          /\ nextCourse' = nextCourse + 1
          /\ Reply("createCourse", 200, "Course created successfully")

\* PUT /courses/:id: authenticate, requireInstructorOrAdmin, updateCourse
UpdateCourse(lim, t, id, updates) ==
  /\ BagCardinality(inflight) < lim
  /\ UNCHANGED <<now, users, payments, issued, nextCourse, inflight, enrolledOk>>
  /\ IF ~Authenticate(t)
     THEN Reply("updateCourse", 401, "Access token required") /\ UNCHANGED courses
     ELSE IF ~RequireInstructorOrAdmin(t)
     THEN Reply("updateCourse", 403, "Instructor or admin access required") /\ UNCHANGED courses
     ELSE IF id \notin DOMAIN courses
     THEN Reply("updateCourse", 404, "Course not found") /\ UNCHANGED courses
     ELSE IF ~OwnsOrAdmin(courses[id], t)
     THEN Reply("updateCourse", 403, "You can only update your own courses") /\ UNCHANGED courses
     ELSE /\ courses' = CourseUpdate(courses, id, updates)
          /\ Reply("updateCourse", 200, "Course updated successfully")

\* DELETE /courses/:id
DeleteCourse(lim, t, id) ==
  /\ BagCardinality(inflight) < lim
  /\ UNCHANGED <<now, users, payments, issued, nextCourse, inflight, enrolledOk>>
  /\ IF ~Authenticate(t)
     THEN Reply("deleteCourse", 401, "Access token required") /\ UNCHANGED courses
     ELSE IF ~RequireInstructorOrAdmin(t)
     THEN Reply("deleteCourse", 403, "Instructor or admin access required") /\ UNCHANGED courses
     ELSE IF id \notin DOMAIN courses
     THEN Reply("deleteCourse", 404, "Course not found") /\ UNCHANGED courses
     ELSE IF ~OwnsOrAdmin(courses[id], t)
     THEN Reply("deleteCourse", 403, "You can only delete your own courses") /\ UNCHANGED courses
     ELSE /\ courses' = CourseDelete(courses, id)
          /\ Reply("deleteCourse", 200, "Course deleted successfully")

\* POST /courses/:id/publish
PublishCourse(lim, t, id) ==
  /\ BagCardinality(inflight) < lim
  /\ UNCHANGED <<now, users, payments, issued, nextCourse, inflight, enrolledOk>>
  /\ IF ~Authenticate(t)
     THEN Reply("publishCourse", 401, "Access token required") /\ UNCHANGED courses
     ELSE IF ~RequireInstructorOrAdmin(t)
     THEN Reply("publishCourse", 403, "Instructor or admin access required") /\ UNCHANGED courses
     ELSE IF id \notin DOMAIN courses
     THEN Reply("publishCourse", 404, "Course not found") /\ UNCHANGED courses
     ELSE IF ~OwnsOrAdmin(courses[id], t)
     THEN Reply("publishCourse", 403, "You can only publish your own courses") /\ UNCHANGED courses
     ELSE /\ courses' = CourseUpdate(courses, id, [isPublished |-> TRUE])
          /\ Reply("publishCourse", 200, "Course published successfully")

\* ------------------------------------------------------------- enrollment
\* POST /courses/:id/thumbnail: authenticate, requireInstructorOrAdmin, then
\* uploadCourseThumbnail up to the call of awsService.uploadCourseThumbnail
\* (a request without a file is answered 400 before the course is read)
ThumbnailStart(lim, t, id) ==
  /\ BagCardinality(inflight) < lim
  /\ UNCHANGED <<now, users, courses, payments, issued, nextCourse, enrolledOk>>
  /\ IF ~Authenticate(t)
     THEN Reply("uploadThumbnail", 401, "Access token required") /\ UNCHANGED inflight
     ELSE IF ~RequireInstructorOrAdmin(t)
     THEN Reply("uploadThumbnail", 403, "Instructor or admin access required") /\ UNCHANGED inflight
     ELSE IF id \notin DOMAIN courses
     THEN Reply("uploadThumbnail", 404, "Course not found") /\ UNCHANGED inflight
     ELSE IF ~OwnsOrAdmin(courses[id], t)
     THEN Reply("uploadThumbnail", 403, "You can only update your own courses") /\ UNCHANGED inflight
     ELSE /\ inflight' = Suspend(Frame("uploadThumbnail", "upload", t, id, NoPid))
          /\ UNCHANGED last

\* after `await awsService.uploadCourseThumbnail`: CourseModel.update with the url
ThumbnailFinish(f, outcome) ==
  /\ f.op = "uploadThumbnail" /\ f.pc = "upload"
  /\ inflight' = Finish(f)
  /\ UNCHANGED <<now, users, payments, issued, nextCourse, enrolledOk>>
  /\ IF outcome = Throws
     THEN Reply("uploadThumbnail", 500, "Failed to upload thumbnail") /\ UNCHANGED courses
     ELSE IF f.cid \notin DOMAIN courses
     THEN Reply("uploadThumbnail", 500, "Failed to update course thumbnail") /\ UNCHANGED courses
     ELSE /\ courses' = CourseUpdate(courses, f.cid, [thumbnail |-> outcome])
          /\ Reply("uploadThumbnail", 200, "Course thumbnail uploaded successfully")

\* CourseModel.updateRating applied to the store (no route calls it)
RateCourse(id, newRating) ==
  /\ courses' = UpdateRating(courses, id, newRating)
  /\ UNCHANGED <<now, users, payments, issued, nextCourse, inflight, last, enrolledOk>>

\* POST /courses/:id/enroll: authenticate, then enrollInCourse up to its first
\* await: CourseModel.findById reads the map when it is called
EnrollStart(lim, t, id, paymentIntentId) ==
  /\ BagCardinality(inflight) < lim
  /\ UNCHANGED <<now, users, courses, payments, issued, nextCourse, enrolledOk>>
  /\ IF ~Authenticate(t)
     THEN Reply("enroll", 401, "Access token required") /\ UNCHANGED inflight
     ELSE /\ inflight' = Suspend(
               [Frame("enroll", "course", t, id, paymentIntentId) EXCEPT
                  !.found = id \in DOMAIN courses,
                  !.pub = IF id \in DOMAIN courses THEN courses[id].isPublished ELSE FALSE,
                  !.price = IF id \in DOMAIN courses THEN courses[id].price ELSE 0])
          /\ UNCHANGED last

\* an enroll handler without the isPublished check
EnrollAfterCourseUnchecked(f) ==
  /\ f.op = "enroll" /\ f.pc = "course"
  /\ UNCHANGED <<now, users, courses, payments, issued, nextCourse, enrolledOk>>
  /\ IF ~f.found
     THEN Reply("enroll", 404, "Course not found") /\ inflight' = Finish(f)
     ELSE /\ inflight' = Resume(f, [f EXCEPT !.pc = "user", !.ufound = f.uid \in DOMAIN users])
          /\ UNCHANGED last

\* after `await CourseModel.findById`: the course checks, then UserModel.findById
EnrollAfterCourse(f) ==
  /\ f.op = "enroll" /\ f.pc = "course"
  /\ UNCHANGED <<now, users, courses, payments, issued, nextCourse, enrolledOk>>
  /\ IF ~f.found
     THEN Reply("enroll", 404, "Course not found") /\ inflight' = Finish(f)
     ELSE IF ~f.pub
     THEN Reply("enroll", 403, "Course is not available for enrollment") /\ inflight' = Finish(f)
     ELSE /\ inflight' = Resume(f, [f EXCEPT !.pc = "user", !.ufound = f.uid \in DOMAIN users])
          /\ UNCHANGED last

\* the progress array the handler's `user` reference leads to: the stored
\* user's array, or the array the user had when the account was deleted
SeenProgress(f) == IF f.gone THEN f.orphan ELSE users[f.uid].progress

\* after `await UserModel.findById`: the already-enrolled check; a free course is
\* written at once, a paid one looks its payment up (PaymentModel.findByStripeId)
EnrollAfterUser(f) ==
  /\ f.op = "enroll" /\ f.pc = "user"
  /\ UNCHANGED <<now, courses, payments, issued, nextCourse, enrolledOk>>
  /\ IF ~f.ufound
     THEN Reply("enroll", 404, "User not found") /\ inflight' = Finish(f) /\ UNCHANGED users
     ELSE IF ProgressIndex(SeenProgress(f), f.cid) > 0
     THEN Reply("enroll", 409, "Already enrolled in this course") /\ inflight' = Finish(f) /\ UNCHANGED users
     ELSE IF f.price = 0
     THEN /\ users' = UserUpdateProgress(users, f.uid, f.cid, Enrollment(f.cid))
          /\ inflight' = Resume(f, [f EXCEPT !.pc = "increment"])
          /\ UNCHANGED last
     ELSE IF f.pid = NoPid
     THEN Reply("enroll", 400, "Payment required for paid courses") /\ inflight' = Finish(f) /\ UNCHANGED users
     ELSE LET i == FindByStripeId(payments, f.pid)
          IN IF i = 0 \/ (i > 0 /\ payments[i].status # SUCCEEDED)
             THEN Reply("enroll", 400, "Payment not completed") /\ inflight' = Finish(f) /\ UNCHANGED users
             ELSE /\ inflight' = Resume(f, [f EXCEPT !.pc = "write"])
                  /\ UNCHANGED <<users, last>>

\* after `await PaymentModel.findByStripeId`: UserModel.updateProgress
EnrollWrite(f) ==
  /\ f.op = "enroll" /\ f.pc = "write"
  /\ users' = UserUpdateProgress(users, f.uid, f.cid, Enrollment(f.cid))
  /\ inflight' = Resume(f, [f EXCEPT !.pc = "increment"])
  /\ UNCHANGED <<now, courses, payments, issued, nextCourse, last, enrolledOk>>

\* after `await UserModel.updateProgress`: CourseModel.incrementEnrollment, success
EnrollIncrement(f) ==
  /\ f.op = "enroll" /\ f.pc = "increment"
  /\ courses' = IncrementEnrollment(courses, f.cid)
  /\ inflight' = Finish(f)
  /\ Reply("enroll", 200, "Enrolled in course successfully")
  /\ enrolledOk' = enrolledOk \cup {<<f.uid, f.cid>>}
  /\ UNCHANGED <<now, users, payments, issued, nextCourse>>

\* ------------------------------------------------------------- users
\* the fields updateProgress destructures from the body: an omitted one is
\* undefined (completedModules is the number of modules in the array)
ProgressBodies ==
  {[completedModules |-> Undefined, currentModule |-> Undefined, progressPercentage |-> Undefined],
   [completedModules |-> 1, currentModule |-> 1, progressPercentage |-> 50]}

\* PUT /users/progress/:courseId: authenticate, updateProgress
UpdateProgress(lim, t, courseId, body) ==
  /\ BagCardinality(inflight) < lim
  /\ UNCHANGED <<now, courses, payments, issued, nextCourse, inflight, enrolledOk>>
  /\ IF ~Authenticate(t)
     THEN Reply("updateProgress", 401, "Access token required") /\ UNCHANGED users
     ELSE /\ users' = UserUpdateProgress(users, t.userId, courseId,
                                         Merge(body, [lastAccessedAt |-> now]))
          /\ IF t.userId \in DOMAIN users
             THEN Reply("updateProgress", 200, "Progress updated successfully")
             ELSE Reply("updateProgress", 404, "User not found")

\* a frame holding a reference to the deleted user keeps the user's progress array
Orphaned(f, userId) ==
  IF f.op = "enroll" /\ f.pc = "user" /\ f.uid = userId /\ f.ufound /\ ~f.gone
  THEN [f EXCEPT !.gone = TRUE, !.orphan = users[userId].progress]
  ELSE f

\* the bodies of PUT /users/profile that updateUserSchema accepts
ProfileBodies == {<<>>, [bio |-> "Learner"], [bio |-> "Mentor"]}

\* PUT /users/profile: authenticate, validateBody(updateUserSchema), updateProfile
UpdateProfile(lim, t, updates) ==
  /\ BagCardinality(inflight) < lim
  /\ UNCHANGED <<now, courses, payments, issued, nextCourse, inflight, enrolledOk>>
  /\ IF ~Authenticate(t)
     THEN Reply("updateProfile", 401, "Access token required") /\ UNCHANGED users
     ELSE IF t.userId \notin DOMAIN users
     THEN Reply("updateProfile", 404, "User not found") /\ UNCHANGED users
     ELSE /\ users' = UserUpdate(users, t.userId, updates)
          /\ ReplyWith("updateProfile", 200, "Profile updated successfully",
                       Profile(users'[t.userId], t.userId, UserProfileKeys))

\* GET /users/profile: authenticate, getProfile
GetProfile(lim, t) ==
  /\ BagCardinality(inflight) < lim
  /\ UNCHANGED <<now, users, courses, payments, issued, nextCourse, inflight, enrolledOk>>
  /\ IF ~Authenticate(t)
     THEN Reply("getProfile", 401, "Access token required")
     ELSE IF t.userId \notin DOMAIN users
     THEN Reply("getProfile", 404, "User not found")
     ELSE ReplyWith("getProfile", 200, "Profile retrieved successfully",
                    Profile(users[t.userId], t.userId, UserProfileKeys))

\* DELETE /users/account: authenticate, deleteAccount
DeleteAccount(lim, t) ==
  /\ BagCardinality(inflight) < lim
  /\ UNCHANGED <<now, courses, payments, issued, nextCourse, enrolledOk>>
  /\ IF ~Authenticate(t)
     THEN Reply("deleteAccount", 401, "Access token required") /\ UNCHANGED <<users, inflight>>
     ELSE IF t.userId \notin DOMAIN users
     THEN Reply("deleteAccount", 404, "User not found") /\ UNCHANGED <<users, inflight>>
     ELSE /\ users' = Remove(users, t.userId)
          /\ inflight' = [g \in {Orphaned(f, t.userId) : f \in Frames} |->
                            inflight[CHOOSE f \in Frames : Orphaned(f, t.userId) = g]]
          /\ Reply("deleteAccount", 200, "Account deleted successfully")

\* ------------------------------------------------------------- payments
\* the statuses stripe.paymentIntents.retrieve may report
StripeStatuses ==
  {"succeeded", "processing", "requires_payment_method", "requires_confirmation",
   "requires_action", "canceled", "requires_capture"}

\* StripeService.confirmPayment: the switch over paymentIntent.status
ConfirmStatus(stripeStatus) ==
  CASE stripeStatus = "succeeded" -> SUCCEEDED
    [] stripeStatus = "processing" -> PENDING
    [] stripeStatus \in {"requires_payment_method", "requires_confirmation", "requires_action"}
         -> PENDING
    [] stripeStatus = "canceled" -> CANCELED
    [] OTHER -> FAILED

OpenIntents == Len(payments) + BagCardinality([f \in {g \in Frames : g.op = "createIntent"} |-> inflight[f]])

\* POST /payments/create-intent: authenticate, then createPaymentIntent up to
\* its first await (CourseModel.findById)
CreateIntentStart(lim, t, courseId) ==
  /\ BagCardinality(inflight) < lim
  /\ OpenIntents < MaxPayments
  /\ UNCHANGED <<now, users, courses, payments, issued, nextCourse, enrolledOk>>
  /\ IF ~Authenticate(t)
     THEN Reply("createIntent", 401, "Access token required") /\ UNCHANGED inflight
     ELSE /\ inflight' = Suspend(
               [Frame("createIntent", "course", t, courseId, NoPid) EXCEPT
                  !.found = courseId \in DOMAIN courses,
                  !.pub = IF courseId \in DOMAIN courses THEN courses[courseId].isPublished ELSE FALSE,
                  !.price = IF courseId \in DOMAIN courses THEN courses[courseId].price ELSE 0])
          /\ UNCHANGED last

\* a createPaymentIntent that opens an intent for a free course too
CreateIntentAfterCourseUnchecked(f) ==
  /\ f.op = "createIntent" /\ f.pc = "course"
  /\ UNCHANGED <<now, users, courses, payments, issued, nextCourse, enrolledOk>>
  /\ IF ~f.found
     THEN Reply("createIntent", 404, "Course not found") /\ inflight' = Finish(f)
     ELSE IF ~f.pub
     THEN Reply("createIntent", 400, "Course is not available for purchase") /\ inflight' = Finish(f)
     ELSE IF FindSuccessfulPayment(payments, f.uid, f.cid)
     THEN Reply("createIntent", 409, "Course already purchased") /\ inflight' = Finish(f)
     ELSE inflight' = Resume(f, [f EXCEPT !.pc = "provider"]) /\ UNCHANGED last

\* after `await CourseModel.findById`: the course checks, findSuccessfulPayment,
\* and the call of stripeService.createPaymentIntent
CreateIntentAfterCourse(f) ==
  /\ f.op = "createIntent" /\ f.pc = "course"
  /\ UNCHANGED <<now, users, courses, payments, issued, nextCourse, enrolledOk>>
  /\ IF ~f.found
     THEN Reply("createIntent", 404, "Course not found") /\ inflight' = Finish(f)
     ELSE IF ~f.pub
     THEN Reply("createIntent", 400, "Course is not available for purchase") /\ inflight' = Finish(f)
     ELSE IF f.price = 0
     THEN Reply("createIntent", 400, "This course is free") /\ inflight' = Finish(f)
     ELSE IF FindSuccessfulPayment(payments, f.uid, f.cid)
     THEN Reply("createIntent", 409, "Course already purchased") /\ inflight' = Finish(f)
     ELSE inflight' = Resume(f, [f EXCEPT !.pc = "provider"]) /\ UNCHANGED last

\* after `await stripeService.createPaymentIntent`: PaymentModel.create
CreateIntentFinish(f, outcome) ==
  /\ f.op = "createIntent" /\ f.pc = "provider"
  /\ inflight' = Finish(f)
  /\ UNCHANGED <<now, users, courses, issued, nextCourse, enrolledOk>>
  /\ IF outcome = Throws
     THEN Reply("createIntent", 500, "Failed to create payment intent") /\ UNCHANGED payments
     ELSE /\ payments' = Append(payments,
               [userId |-> f.uid, courseId |-> f.cid, status |-> PENDING,
                stripePaymentIntentId |-> Len(payments) + 1, amount |-> f.price,
                createdAt |-> now, updatedAt |-> now])
          /\ Reply("createIntent", 200, "Payment intent created successfully")

\* POST /payments/confirm: the lookup, the owner check and the call of
\* stripeService.confirmPayment
ConfirmStart(lim, t, paymentIntentId) ==
  /\ BagCardinality(inflight) < lim
  /\ UNCHANGED <<now, users, courses, payments, issued, nextCourse, enrolledOk>>
  /\ LET i == FindByStripeId(payments, paymentIntentId)
     IN IF ~Authenticate(t)
        THEN Reply("confirm", 401, "Access token required") /\ UNCHANGED inflight
        ELSE IF i = 0
        THEN Reply("confirm", 404, "Payment not found") /\ UNCHANGED inflight
        ELSE IF payments[i].userId # t.userId
        THEN Reply("confirm", 403, "Access denied") /\ UNCHANGED inflight
        ELSE /\ inflight' = Suspend(Frame("confirm", "provider", t, payments[i].courseId, i))
             /\ UNCHANGED last

\* a confirm that writes the provider's status only over a Pending payment
ConfirmFinishForwardOnly(f, outcome) ==
  /\ f.op = "confirm" /\ f.pc = "provider"
  /\ inflight' = Finish(f)
  /\ UNCHANGED <<now, users, courses, issued, nextCourse, enrolledOk>>
  /\ IF outcome = Throws
     THEN Reply("confirm", 500, "Failed to confirm payment") /\ UNCHANGED payments
     ELSE /\ payments' = IF payments[f.pid].status = PENDING
                         THEN PaymentUpdate(payments, f.pid, [status |-> ConfirmStatus(outcome)])
                         ELSE payments
          /\ IF ConfirmStatus(outcome) = SUCCEEDED
             THEN Reply("confirm", 200, "Payment confirmed successfully")
             ELSE Reply("confirm", 400, "Payment " \o ConfirmStatus(outcome))

\* after `await stripeService.confirmPayment`: PaymentModel.update with the mapped status
ConfirmFinish(f, outcome) ==
  /\ f.op = "confirm" /\ f.pc = "provider"
  /\ inflight' = Finish(f)
  /\ UNCHANGED <<now, users, courses, issued, nextCourse, enrolledOk>>
  /\ IF outcome = Throws
     THEN Reply("confirm", 500, "Failed to confirm payment") /\ UNCHANGED payments
     ELSE /\ payments' = PaymentUpdate(payments, f.pid, [status |-> ConfirmStatus(outcome)])
          /\ IF ConfirmStatus(outcome) = SUCCEEDED
             THEN Reply("confirm", 200, "Payment confirmed successfully")
             ELSE Reply("confirm", 400, "Payment " \o ConfirmStatus(outcome))

\* POST /payments/refund: the lookup, the owner-or-admin check, the status check
\* and the call of stripeService.refundPayment
RefundStart(lim, t, paymentIntentId) ==
  /\ BagCardinality(inflight) < lim
  /\ UNCHANGED <<now, users, courses, payments, issued, nextCourse, enrolledOk>>
  /\ LET i == FindByStripeId(payments, paymentIntentId)
     IN IF ~Authenticate(t)
        THEN Reply("refund", 401, "Access token required") /\ UNCHANGED inflight
        ELSE IF i = 0
        THEN Reply("refund", 404, "Payment not found") /\ UNCHANGED inflight
        ELSE IF payments[i].userId # t.userId /\ t.role # ADMIN
        THEN Reply("refund", 403, "Access denied") /\ UNCHANGED inflight
        ELSE IF payments[i].status # SUCCEEDED
        THEN Reply("refund", 400, "Only successful payments can be refunded") /\ UNCHANGED inflight
        ELSE /\ inflight' = Suspend(Frame("refund", "provider", t, payments[i].courseId, i))
             /\ UNCHANGED last

RefundStatuses == {"succeeded", "pending", "failed"}

\* a refund that marks the payment Refunded whatever status the provider reports
RefundFinishEager(f, outcome) ==
  /\ f.op = "refund" /\ f.pc = "provider"
  /\ inflight' = Finish(f)
  /\ UNCHANGED <<now, users, courses, issued, nextCourse, enrolledOk>>
  /\ IF outcome # Throws
     THEN /\ payments' = PaymentUpdate(payments, f.pid, [status |-> REFUNDED])
          /\ Reply("refund", 200, "Refund processed successfully")
     ELSE Reply("refund", 500, "Failed to process refund") /\ UNCHANGED payments

\* after `await stripeService.refundPayment`
RefundFinish(f, outcome) ==
  /\ f.op = "refund" /\ f.pc = "provider"
  /\ inflight' = Finish(f)
  /\ UNCHANGED <<now, users, courses, issued, nextCourse, enrolledOk>>
  /\ IF outcome = "succeeded"
     THEN /\ payments' = PaymentUpdate(payments, f.pid, [status |-> REFUNDED])
          /\ Reply("refund", 200, "Refund processed successfully")
     ELSE Reply("refund", 500, "Failed to process refund") /\ UNCHANGED payments

EventTypes ==
  {"payment_intent.succeeded", "payment_intent.payment_failed", "payment_intent.canceled"}
Events == [verified : BOOLEAN, type : EventTypes, id : 1..MaxPayments]

\* a handler that would treat a failure event for an already failed payment as
\* a cancellation: a second delivery of the event moves the status again
WebhookApplyEscalating(ps, event) ==
  LET i == FindByStripeId(ps, event.id)
  IN CASE event.type = "payment_intent.succeeded" ->
            IF i > 0 THEN PaymentUpdate(ps, i, [status |-> SUCCEEDED]) ELSE ps
       [] event.type = "payment_intent.payment_failed" ->
            IF i > 0
            THEN PaymentUpdate(ps, i, [status |-> IF ps[i].status = FAILED THEN CANCELED ELSE FAILED])
            ELSE ps
       [] OTHER -> ps

\* PaymentController.handleWebhook's switch over event.type, on the payment store
WebhookApply(ps, event) ==
  LET i == FindByStripeId(ps, event.id)
  IN CASE event.type = "payment_intent.succeeded" ->
            IF i > 0 THEN PaymentUpdate(ps, i, [status |-> SUCCEEDED]) ELSE ps
       [] event.type = "payment_intent.payment_failed" ->
            IF i > 0 THEN PaymentUpdate(ps, i, [status |-> FAILED]) ELSE ps
       [] OTHER -> ps

\* the status handleWebhook answers with: 400 when constructEvent rejects the signature
WebhookCode(event) == IF event.verified THEN 200 ELSE 400

\* POST /payments/webhook (no authenticate)
HandleWebhook(lim, event) ==
  /\ BagCardinality(inflight) < lim
  /\ payments' = IF event.verified THEN WebhookApply(payments, event) ELSE payments
  /\ IF event.verified
     THEN ReplyJson("webhook", WebhookCode(event), "received", [received |-> TRUE])
     ELSE ReplyJson("webhook", WebhookCode(event), "Webhook signature verification failed",
                    [error |-> "Webhook signature verification failed"])
  /\ UNCHANGED <<now, users, courses, issued, nextCourse, inflight, enrolledOk>>

\* ------------------------------------------------------------- signup
Emails == {"a@x.com", "student@skillforge.com"}
Omitted == "omitted"
\* the password of the signup requests
SignupPassword == "secret1"
SignupRoles == {Omitted, INSTRUCTOR}

\* UserModel.findByEmail, as the test signup makes of it
FindByEmail(us, email) == \E u \in DOMAIN us : us[u].email = email

Signups == (Cardinality(DOMAIN issued) - Cardinality(DOMAIN DemoUsers))
           + BagCardinality([f \in {g \in Frames : g.op = "signup"} |-> inflight[f]])

\* POST /auth/signup up to `await bcrypt.hash`: the existing-user check
SignupStart(lim, email, role) ==
  /\ BagCardinality(inflight) < lim
  /\ Signups < MaxSignups
  /\ UNCHANGED <<now, users, courses, payments, issued, nextCourse, enrolledOk>>
  /\ IF FindByEmail(users, email)
     THEN Reply("signup", 409, "User with this email already exists") /\ UNCHANGED inflight
     ELSE /\ inflight' = Suspend(
               [Frame("signup", "hash", NoToken, 0, NoPid) EXCEPT
                  !.email = email,
                  !.role = IF role = Omitted THEN STUDENT ELSE role])
          /\ UNCHANGED last

\* after `await bcrypt.hash`: UserModel.create and the token pair
SignupCreate(f) ==
  /\ f.op = "signup" /\ f.pc = "hash"
  /\ LET id == Cardinality(DOMAIN issued) + 1
     IN /\ users' = users @@ (id :> [email |-> f.email, role |-> f.role, progress |-> <<>>,
                                password |-> Hash(SignupPassword), bio |-> "",
                                createdAt |-> now, updatedAt |-> now])
        /\ issued' = issued @@ (id :> f.role)
        /\ ReplyWith("signup", 200, "Account created successfully",
                     Merge([user |-> Profile(users'[id], id, AuthProfileKeys)],
                           TokenPair(users'[id], id)))
  /\ inflight' = Finish(f)
  /\ UNCHANGED <<now, courses, payments, nextCourse, enrolledOk>>

\* the passwords of the login requests
LoginPasswords == {"password", SignupPassword}

\* POST /auth/login up to `await bcrypt.compare`: the lookup by email.  The
\* frame keeps the user record the handler holds and what compare will answer.
LoginStart(lim, email, password) ==
  /\ BagCardinality(inflight) < lim
  /\ UNCHANGED <<now, users, courses, payments, issued, nextCourse, enrolledOk>>
  /\ IF ~FindByEmail(users, email)
     THEN Reply("login", 401, "Invalid email or password") /\ UNCHANGED inflight
     ELSE LET id == CHOOSE u \in DOMAIN users :
                      /\ users[u].email = email
                      /\ \A v \in DOMAIN users : users[v].email = email => u <= v
          IN /\ inflight' = Suspend(
                  [Frame("login", "compare", [userId |-> id, role |-> users[id].role], 0, NoPid)
                     EXCEPT !.email = email,
                            !.snap = users[id],
                            !.found = (Hash(password) = users[id].password)])
             /\ UNCHANGED last

\* after `await bcrypt.compare`: the token pair and the profile
LoginFinish(f) ==
  /\ f.op = "login" /\ f.pc = "compare"
  /\ inflight' = Finish(f)
  /\ UNCHANGED <<now, users, courses, payments, issued, nextCourse, enrolledOk>>
  /\ IF ~f.found
     THEN Reply("login", 401, "Invalid email or password")
     ELSE ReplyWith("login", 200, "Login successful",
                    Merge([user |-> Profile(f.snap, f.uid, AuthProfileKeys)],
                          TokenPair(f.snap, f.uid)))

\* ------------------------------------------------------------- refresh
\* a refresh that trusts the token and does not look the user up
RefreshCodeTrusting(t) == IF ~Authenticate(t) THEN 401 ELSE 200

\* POST /auth/refresh: verifyRefreshToken, then UserModel.findById.  t is the
\* payload of the presented token, NoToken when verification throws.
RefreshCode(t) ==
  IF ~Authenticate(t) THEN 401
  ELSE IF t.userId \notin DOMAIN users THEN 401
  ELSE 200

\* the payload generateTokenPair signs into both tokens of the answer;
\* <<>> when no tokens are issued
RefreshData(t) ==
  IF RefreshCode(t) = 200
  THEN [userId |-> t.userId, email |-> users[t.userId].email, role |-> users[t.userId].role]
  ELSE <<>>

Refresh(lim, t) ==
  /\ BagCardinality(inflight) < lim
  /\ IF ~Authenticate(t)
     THEN Reply("refresh", 401, "Invalid or expired refresh token")
     ELSE IF RefreshCode(t) = 401
     THEN Reply("refresh", 401, "User not found")
     ELSE ReplyWith("refresh", 200, "Tokens refreshed successfully",
                    [accessToken |-> RefreshData(t), refreshToken |-> RefreshData(t)])
  /\ UNCHANGED <<now, users, courses, payments, issued, nextCourse, inflight, enrolledOk>>

\* ------------------------------------------------------------- ownership gate
\* the parameter names a route may construct the gate with
ParamNames == {"id", "userId", "courseId"}

\* a request reaches a route guarded by requireOwnership(param), with the
\* parameter's value resourceId
GateStart(lim, t, param, resourceId) ==
  /\ BagCardinality(inflight) < lim
  /\ inflight' = Suspend([Frame("requireOwnership", "gate", t, resourceId, NoPid) EXCEPT
                            !.param = param])
  /\ UNCHANGED <<now, users, courses, payments, issued, nextCourse, last, enrolledOk>>

\* the gate answers or lets the request through
GateFinish(f) ==
  /\ f.op = "requireOwnership" /\ f.pc = "gate"
  /\ inflight' = Finish(f)
  /\ LET code == RequireOwnership(f.param, [userId |-> f.uid, role |-> f.role], f.cid)
     IN Reply("requireOwnership", code,
              CASE code = 401 -> "Authentication required"
                [] code = 403 -> "Access denied: You can only access your own resources"
                [] OTHER -> "next")
  /\ UNCHANGED <<now, users, courses, payments, issued, nextCourse, enrolledOk>>

\* ------------------------------------------------------------- catalogue reads
\* the keys paginationSchema allows in a query: validateQuery rejects any other
PaginationKeys == {"page", "limit"}
ValidateQuery(query) == DOMAIN query \subseteq PaginationKeys

\* the records of a store in the order the Map iterates them (insertion order:
\* ids are handed out in increasing order and Map.set keeps a key's place)
RECURSIVE Values(_, _)
Values(store, ids) ==
  IF ids = {} THEN <<>>
  ELSE LET id == CHOOSE x \in ids : \A y \in ids : x <= y
       IN <<Merge(store[id], [id |-> id])>> \o Values(store, ids \ {id})

\* a findAll that ignores includeUnpublished
CourseFindAllUnfiltered(cs, search, includeUnpublished) ==
  LET all == Values(cs, DOMAIN cs)
      Matches(c) == search = Undefined \/ search \in c.tags
  IN SelectSeq(all, Matches)

\* CourseModel.findAll with the filters the controllers pass; a search term
\* is matched against the tags only (titles and descriptions are not kept)
CourseFindAll(cs, search, includeUnpublished) ==
  LET all == Values(cs, DOMAIN cs)
      Matches(c) == search = Undefined \/ search \in c.tags
      Shown(c) == includeUnpublished \/ c.isPublished
      matched == SelectSeq(all, Matches)
  IN SelectSeq(matched, Shown)

RECURSIVE Reverse(_)
Reverse(list) == IF list = <<>> THEN <<>> ELSE Reverse(Tail(list)) \o <<Head(list)>>

\* a slice that also takes the record after the page's last one
SliceInclusive(list, startIndex, endIndex) ==
  [i \in 1..((IF endIndex + 1 < Len(list) THEN endIndex + 1 ELSE Len(list)) - startIndex) |->
     list[startIndex + i]]

\* list.slice(startIndex, endIndex)
Slice(list, startIndex, endIndex) ==
  [i \in 1..((IF endIndex < Len(list) THEN endIndex ELSE Len(list)) - startIndex) |->
     list[startIndex + i]]

\* Math.ceil(total / limit) for a positive limit
Ceil(total, limit) == (total + limit - 1) \div limit

\* createPagination
CreatePagination(page, limit, total) ==
  [page |-> page, limit |-> limit, total |-> total,
   totalPages |-> Ceil(total, limit),
   hasNext |-> page < Ceil(total, limit),
   hasPrev |-> page > 1]

Paginate(list, page, limit) == Slice(list, (page - 1) * limit, (page - 1) * limit + limit)

Field(query, key, default) == IF key \in DOMAIN query THEN query[key] ELSE default

\* GET /courses: optionalAuth, validateQuery(paginationSchema), getAllCourses.
\* The body of the answer; the default sort is createdAt descending.
GetAllCoursesData(t, query) ==
  IF ValidateQuery(query)
  THEN Paginate(Reverse(CourseFindAll(courses, Undefined, t.role = ADMIN)),
                Field(query, "page", 1), Field(query, "limit", 12))
  ELSE <<>>

\* the pagination block of the answer of GET /courses
GetAllCoursesPagination(t, query) ==
  IF ValidateQuery(query)
  THEN CreatePagination(Field(query, "page", 1), Field(query, "limit", 12),
                        Len(CourseFindAll(courses, Undefined, t.role = ADMIN)))
  ELSE <<>>

GetAllCoursesCode(t, query) == IF ValidateQuery(query) THEN 200 ELSE 400

\* GET /courses/search: optionalAuth, validateQuery(paginationSchema), searchCourses
SearchCoursesCode(t, query) ==
  IF ~ValidateQuery(query) THEN 400
  ELSE IF "q" \notin DOMAIN query THEN 400
  ELSE 200

SearchCoursesData(t, query) ==
  IF SearchCoursesCode(t, query) = 200
  THEN Paginate(CourseFindAll(courses, query.q, t.role = ADMIN),
                Field(query, "page", 1), Field(query, "limit", 12))
  ELSE <<>>

\* GET /courses/:id: optionalAuth, getCourseById
GetCourseByIdCode(t, id) ==
  IF id \notin DOMAIN courses THEN 404
  ELSE IF ~courses[id].isPublished /\ t.role # ADMIN /\ t.userId # courses[id].instructorId
  THEN 403
  ELSE 200

GetCourseByIdData(t, id) ==
  IF GetCourseByIdCode(t, id) = 200 THEN <<Merge(courses[id], [id |-> id])>> ELSE <<>>

Queries ==
  {<<>>, [page |-> 2, limit |-> 1], [q |-> "dev"], [q |-> "dev", limit |-> 1]}

GetAllCourses(lim, t, query) ==
  /\ BagCardinality(inflight) < lim
  /\ IF GetAllCoursesCode(t, query) = 200
     THEN Reply("getAllCourses", 200, "Courses retrieved successfully")
     ELSE Reply("getAllCourses", 400, "Validation failed")
  /\ UNCHANGED <<now, users, courses, payments, issued, nextCourse, inflight, enrolledOk>>

SearchCourses(lim, t, query) ==
  /\ BagCardinality(inflight) < lim
  /\ IF ~ValidateQuery(query)
     THEN Reply("searchCourses", 400, "Validation failed")
     ELSE IF SearchCoursesCode(t, query) = 400
     THEN Reply("searchCourses", 400, "Search query is required")
     ELSE Reply("searchCourses", 200, "Search results retrieved successfully")
  /\ UNCHANGED <<now, users, courses, payments, issued, nextCourse, inflight, enrolledOk>>

GetCourseById(lim, t, id) ==
  /\ BagCardinality(inflight) < lim
  /\ Reply("getCourseById", GetCourseByIdCode(t, id),
           CASE GetCourseByIdCode(t, id) = 404 -> "Course not found"
             [] GetCourseByIdCode(t, id) = 403 -> "Course not available"
             [] OTHER -> "Course retrieved successfully")
  /\ UNCHANGED <<now, users, courses, payments, issued, nextCourse, inflight, enrolledOk>>

\* ------------------------------------------------------------- user queries
\* a label that is empty when the course is missing
CourseTitleBlank(id) ==
  IF id \in DOMAIN courses THEN courses[id].title ELSE ""

\* course?.title || 'Unknown Course', for the course CourseModel.findById(id) finds
CourseTitle(id) ==
  IF id \in DOMAIN courses /\ courses[id].title # "" THEN courses[id].title ELSE "Unknown Course"

GetProgressCode(t) ==
  IF ~Authenticate(t) THEN 401
  ELSE IF t.userId \notin DOMAIN users THEN 404
  ELSE 200

\* GET /users/progress: the caller's progress records, each with its course's
\* title (courseThumbnail and totalModules are not listed)
GetProgressData(t) ==
  IF GetProgressCode(t) = 200
  THEN [i \in DOMAIN users[t.userId].progress |->
          Merge(users[t.userId].progress[i],
                [courseTitle |-> CourseTitle(users[t.userId].progress[i].courseId)])]
  ELSE <<>>

GetProgress(lim, t) ==
  /\ BagCardinality(inflight) < lim
  /\ CASE GetProgressCode(t) = 401 -> Reply("getProgress", 401, "Access token required")
       [] GetProgressCode(t) = 404 -> Reply("getProgress", 404, "User not found")
       [] OTHER -> ReplyWith("getProgress", 200, "Progress retrieved successfully",
                             GetProgressData(t))
  /\ UNCHANGED <<now, users, courses, payments, issued, nextCourse, inflight, enrolledOk>>

\* PaymentModel.findByUser: the indexes of the user's payments, in store order
FindByUser(ps, userId) ==
  SelectSeq([i \in DOMAIN ps |-> i], LAMBDA i : ps[i].userId = userId)

\* GET /users/payments with the default page and limit: the caller's payments,
\* each with its course's title (amount, currency and paymentMethod are not listed)
GetPaymentHistoryData(t) ==
  IF ~Authenticate(t) THEN <<>>
  ELSE LET mine == FindByUser(payments, t.userId)
           enriched == [k \in DOMAIN mine |->
                          [id |-> mine[k],
                           courseId |-> payments[mine[k]].courseId,
                           courseTitle |-> CourseTitle(payments[mine[k]].courseId),
                           status |-> payments[mine[k]].status,
                           transactionId |-> payments[mine[k]].stripePaymentIntentId,
                           createdAt |-> payments[mine[k]].createdAt]]
       IN Paginate(enriched, 1, 10)

GetPaymentHistory(lim, t) ==
  /\ BagCardinality(inflight) < lim
  /\ IF ~Authenticate(t)
     THEN Reply("getPaymentHistory", 401, "Access token required")
     ELSE ReplyWith("getPaymentHistory", 200, "Payment history retrieved successfully",
                    GetPaymentHistoryData(t))
  /\ UNCHANGED <<now, users, courses, payments, issued, nextCourse, inflight, enrolledOk>>

\* ------------------------------------------------------------- specifications
PaymentIds == 0..MaxPayments

TokensOf(ids) == {t \in Tokens : t.userId \in ids}

\* the whole API, every handler open to every caller
Next ==
  \/ \E t \in Callers, p \in Prices, g \in TagSets : CreateCourse(MaxInflight, t, p, g)
  \/ \E t \in Callers, c \in CourseIds, u \in UpdateBodies : UpdateCourse(MaxInflight, t, c, u)
  \/ \E t \in Callers, c \in CourseIds : DeleteCourse(MaxInflight, t, c)
  \/ \E t \in Callers, c \in CourseIds : PublishCourse(MaxInflight, t, c)
  \/ \E t \in Callers, q \in Queries : GetAllCourses(MaxInflight, t, q)
  \/ \E t \in Callers, q \in Queries : SearchCourses(MaxInflight, t, q)
  \/ \E t \in Callers, c \in CourseIds : GetCourseById(MaxInflight, t, c)
  \/ \E t \in Callers, c \in CourseIds, p \in PaymentIds : EnrollStart(MaxInflight, t, c, p)
  \/ \E f \in Frames : EnrollAfterCourse(f)
  \/ \E f \in Frames : EnrollAfterUser(f)
  \/ \E f \in Frames : EnrollWrite(f)
  \/ \E f \in Frames : EnrollIncrement(f)
  \/ \E t \in Callers, c \in CourseIds, b \in ProgressBodies : UpdateProgress(MaxInflight, t, c, b)
  \/ \E t \in Callers : DeleteAccount(MaxInflight, t)
  \/ \E t \in Callers, c \in CourseIds : CreateIntentStart(MaxInflight, t, c)
  \/ \E f \in Frames : CreateIntentAfterCourse(f)
  \/ \E f \in Frames, o \in {"created", Throws} : CreateIntentFinish(f, o)
  \/ \E t \in Callers, p \in PaymentIds : ConfirmStart(MaxInflight, t, p)
  \/ \E f \in Frames, o \in StripeStatuses \cup {Throws} : ConfirmFinish(f, o)
  \/ \E t \in Callers, p \in PaymentIds : RefundStart(MaxInflight, t, p)
  \/ \E f \in Frames, o \in RefundStatuses \cup {Throws} : RefundFinish(f, o)
  \/ \E e \in Events : HandleWebhook(MaxInflight, e)
  \/ \E e \in Emails, r \in SignupRoles : SignupStart(MaxInflight, e, r)
  \/ \E f \in Frames : SignupCreate(f)

Spec == Init /\ [][Next]_vars

\* signups that may overlap, and account deletion
SignupSpecNext ==
  \/ \E e \in Emails, r \in SignupRoles : SignupStart(MaxInflight, e, r)
  \/ \E f \in Frames : SignupCreate(f)
  \/ \E t \in Tokens : DeleteAccount(MaxInflight, t)

SignupSpec == Init /\ [][SignupSpecNext]_vars

\* the payment handlers, one request at a time: the student buys the first demo course
PaymentSpecNext ==
  \/ \E t \in TokensOf({3}) : CreateIntentStart(1, t, 1)
  \/ \E f \in Frames : CreateIntentAfterCourse(f)
  \/ \E f \in Frames, o \in {"created", Throws} : CreateIntentFinish(f, o)
  \/ \E t \in TokensOf({3}), p \in PaymentIds : ConfirmStart(1, t, p)
  \/ \E f \in Frames, o \in StripeStatuses \cup {Throws} : ConfirmFinish(f, o)
  \/ \E t \in TokensOf({3}), p \in PaymentIds : RefundStart(1, t, p)
  \/ \E f \in Frames, o \in RefundStatuses \cup {Throws} : RefundFinish(f, o)
  \/ \E e \in Events : HandleWebhook(1, e)

PaymentSpec == Init /\ [][PaymentSpecNext]_vars

\* the student buys the first demo course; the student and the instructor
\* enroll in the demo courses, one request at a time
PaidEnrollSpecNext ==
  \/ \E t \in TokensOf({3}) : CreateIntentStart(1, t, 1)
  \/ \E f \in Frames : CreateIntentAfterCourse(f)
  \/ \E f \in Frames, o \in {"created", Throws} : CreateIntentFinish(f, o)
  \/ \E t \in TokensOf({3}), p \in PaymentIds : ConfirmStart(1, t, p)
  \/ \E f \in Frames, o \in StripeStatuses \cup {Throws} : ConfirmFinish(f, o)
  \/ \E t \in TokensOf({2, 3}), c \in {1, 2}, p \in PaymentIds : EnrollStart(1, t, c, p)
  \/ \E f \in Frames : EnrollAfterCourse(f)
  \/ \E f \in Frames : EnrollAfterUser(f)
  \/ \E f \in Frames : EnrollWrite(f)
  \/ \E f \in Frames : EnrollIncrement(f)

PaidEnrollSpec == Init /\ [][PaidEnrollSpecNext]_vars

\* enrollment of the admin and the student (and of a caller without token), one
\* request at a time, while the admin manages the new courses and the student
\* reports progress and may delete the account
EnrollSpecNext ==
  \/ \E t \in TokensOf({1}), p \in Prices, g \in TagSets : CreateCourse(1, t, p, g)
  \/ \E t \in TokensOf({1}), c \in NewCourseIds, u \in UpdateBodies : UpdateCourse(1, t, c, u)
  \/ \E t \in TokensOf({1}), c \in NewCourseIds : DeleteCourse(1, t, c)
  \/ \E t \in TokensOf({1}), c \in NewCourseIds : PublishCourse(1, t, c)
  \/ \E t \in {NoToken} \cup TokensOf({1, 3}), c \in {1} \cup NewCourseIds : EnrollStart(1, t, c, NoPid)
  \/ \E f \in Frames : EnrollAfterCourse(f)
  \/ \E f \in Frames : EnrollAfterUser(f)
  \/ \E f \in Frames : EnrollIncrement(f)
  \/ \E t \in TokensOf({3}), c \in NewCourseIds, b \in ProgressBodies : UpdateProgress(1, t, c, b)
  \/ \E t \in TokensOf({3}) : DeleteAccount(1, t)

EnrollSpec == Init /\ [][EnrollSpecNext]_vars

\* management of the first demo course and of the new courses by every role,
\* one request at a time, and the deletion of the instructor's account
CourseSpecNext ==
  \/ \E t \in Tokens, p \in Prices, g \in TagSets : CreateCourse(1, t, p, g)
  \/ \E t \in Tokens, c \in {1} \cup NewCourseIds, u \in UpdateBodies : UpdateCourse(1, t, c, u)
  \/ \E t \in Tokens, c \in {1} \cup NewCourseIds : DeleteCourse(1, t, c)
  \/ \E t \in Tokens, c \in {1} \cup NewCourseIds : PublishCourse(1, t, c)
  \/ \E t \in TokensOf({2}) : DeleteAccount(1, t)

CourseSpec == Init /\ [][CourseSpecNext]_vars

\* the catalogue reads by every caller while the instructor and the admin manage courses
ReadSpecNext ==
  \/ \E t \in TokensOf({1, 2}), p \in Prices, g \in TagSets : CreateCourse(1, t, p, g)
  \/ \E t \in TokensOf({1, 2}), c \in CourseIds, u \in UpdateBodies : UpdateCourse(1, t, c, u)
  \/ \E t \in TokensOf({1, 2}), c \in CourseIds : DeleteCourse(1, t, c)
  \/ \E t \in TokensOf({1, 2}), c \in CourseIds : PublishCourse(1, t, c)
  \/ \E t \in Callers, q \in Queries : GetAllCourses(1, t, q)
  \/ \E t \in Callers, q \in Queries : SearchCourses(1, t, q)
  \/ \E t \in Callers, c \in CourseIds : GetCourseById(1, t, c)

ReadSpec == Init /\ [][ReadSpecNext]_vars

\* ------------------------------------------------------------- claims
\* C1: email uniqueness.  In every reachable state of the user store no two
\* user records have the same email, also when the handlers of two signups
\* for the same email overlap.
C1_EmailUnique ==
  \A u, v \in DOMAIN users : users[u].email = users[v].email => u = v

\* the payment an enroll request refers to is a Succeeded payment of the
\* requesting user for the requested course
PaidFor(f) ==
  LET i == FindByStripeId(payments, f.pid)
  IN /\ f.pid # NoPid
     /\ i > 0
     /\ payments[i].status = SUCCEEDED
     /\ payments[i].userId = f.uid
     /\ payments[i].courseId = f.cid

\* C2: a user is enrolled in a paid course only if a Succeeded payment of that
\* user for that course exists at the moment of enrollment; an enroll request
\* on a paid course whose payment reference is absent, unknown, not Succeeded,
\* another user's or for another course is rejected with 400 and writes no
\* progress record.
C2_PaidEnrollmentNeedsOwnPayment ==
  [][\A f \in Frames :
       /\ (/\ EnrollAfterUser(f)
           /\ f.ufound
           /\ ProgressIndex(SeenProgress(f), f.cid) = 0
           /\ f.price > 0
           /\ ~PaidFor(f))
          => (inflight' = Finish(f) /\ last'.op = "enroll" /\ last'.code = 400 /\ users' = users)
       /\ EnrollWrite(f) => FindSuccessfulPayment(payments, f.uid, f.cid)]_vars

\* C3: once a payment's status is Succeeded, the only other status it can
\* ever take is Refunded, whatever the provider reports to confirm and
\* whatever events the webhook receives.
C3_SucceededOnlyToRefunded ==
  [][\A i \in DOMAIN payments :
       payments[i].status = SUCCEEDED => payments'[i].status \in {SUCCEEDED, REFUNDED}]_vars

\* C4: in every reachable state at most one payment record of a (user, course)
\* pair has status Succeeded.
C4_OneSucceededPerPair ==
  \A i, j \in DOMAIN payments :
    (/\ payments[i].status = SUCCEEDED
     /\ payments[j].status = SUCCEEDED
     /\ payments[i].userId = payments[j].userId
     /\ payments[i].courseId = payments[j].courseId) => i = j

\* C6: webhook idempotence.  In every payment state and for every event of the
\* provider, handling the event a second time leaves the store as the first
\* handling left it, with no record added, and both are answered with 200.
C6_WebhookIdempotent ==
  \A e \in Events :
    e.verified =>
      LET once == WebhookApply(payments, e)
          twice == WebhookApply(once, e)
      IN /\ twice = once
         /\ Len(once) = Len(payments)
         /\ WebhookCode(e) = 200

\* a webhook was handled, and the store holds a payment in the status the
\* event sets, so that delivering the event again finds it already applied
C6_Witness ==
  /\ last.op = "webhook" /\ last.code = 200
  /\ \E e \in Events :
       /\ e.verified
       /\ e.type = "payment_intent.payment_failed"
       /\ FindByStripeId(payments, e.id) > 0
       /\ payments[FindByStripeId(payments, e.id)].status = FAILED
       /\ WebhookApply(payments, e) = payments

\* the progress records user u holds for course c
ProgressOf(u, c) ==
  IF u \in DOMAIN users
  THEN {i \in DOMAIN users[u].progress : users[u].progress[i].courseId = c}
  ELSE {}

\* a step of the enroll handler whose frame is f
EnrollStep(f) ==
  EnrollAfterCourse(f) \/ EnrollAfterUser(f) \/ EnrollWrite(f) \/ EnrollIncrement(f)

\* the handler of frame f sends its response in this step
Answers(f) == f \in Frames /\ inflight' = Finish(f)

\* C5, as stated: after a successful enroll of user U in course C, U holds
\* exactly one progress record for C, and every later enroll call by U for C
\* is answered with 409 and changes neither the user store nor the course store.
C5_ReEnrollAlwaysConflict ==
  /\ [](\A p \in enrolledOk : p[1] \in DOMAIN users => Cardinality(ProgressOf(p[1], p[2])) = 1)
  /\ [][\A f \in Frames :
          (<<f.uid, f.cid>> \in enrolledOk /\ EnrollStep(f)) =>
            /\ users' = users
            /\ courses' = courses
            /\ Answers(f) => (last'.op = "enroll" /\ last'.code = 409)]_vars

\* C5, amended: the same, for later enroll calls made while U's account and
\* course C still exist; after either was deleted the call is answered with 404.
C5_ReEnrollConflictWhileBothExist ==
  /\ [](\A p \in enrolledOk : p[1] \in DOMAIN users => Cardinality(ProgressOf(p[1], p[2])) = 1)
  /\ [][\A f \in Frames :
          (<<f.uid, f.cid>> \in enrolledOk /\ EnrollStep(f)) =>
            /\ users' = users
            /\ courses' = courses
            /\ Answers(f) =>
                 /\ last'.op = "enroll"
                 /\ last'.code = IF f.cid \in DOMAIN courses /\ f.uid \in DOMAIN users
                                 THEN 409 ELSE 404]_vars

\* an enroll call was answered with 409 while every account exists and every
\* progress record in the store was written by a successful enroll
C5_Witness ==
  /\ last.op = "enroll" /\ last.code = 409
  /\ inflight = EmptyBag
  /\ enrolledOk # {}
  /\ DOMAIN users = DOMAIN issued
  /\ \A u \in DOMAIN users : \A i \in DOMAIN users[u].progress :
       <<u, users[u].progress[i].courseId>> \in enrolledOk

\* the course of frame f is in the store and unpublished
Unpublished(f) == f.cid \in DOMAIN courses /\ ~courses[f.cid].isPublished

\* C9: enrollment is permitted only on published courses.  An enroll request
\* on a course whose isPublished is false is answered with 403 for every
\* authenticated caller, whatever the caller's role and the course's price (without
\* a token the request ends at authenticate with 401), and no step of the
\* request changes a user's progress list or a course's enrollmentCount.
C9_UnpublishedNotEnrollable ==
  /\ [](\A f \in Frames : (f.op = "enroll" /\ Unpublished(f)) => f.pc = "course")
  /\ [][/\ \A t \in Callers, c \in CourseIds :
             EnrollStart(1, t, c, NoPid) =>
               /\ users' = users /\ courses' = courses
               /\ t = NoToken => (last'.op = "enroll" /\ last'.code = 401 /\ inflight' = inflight)
          /\ \A f \in Frames :
             (EnrollAfterCourse(f) /\ Unpublished(f)) =>
               /\ Answers(f)
               /\ last'.op = "enroll" /\ last'.code = 403
               /\ users' = users /\ courses' = courses]_vars

\* an enroll request on an unpublished course has just been refused, and the
\* store holds an unpublished course nobody is enrolled in
C9_Witness ==
  /\ last = Response("enroll", 403, "Course is not available for enrollment")
  /\ inflight = EmptyBag
  /\ \E c \in DOMAIN courses : ~courses[c].isPublished /\ courses[c].enrollmentCount = 0

\* frame f is at the already-enrolled check of a free enrollment that must succeed:
\* a published course of price 0, an existing user without a progress record for it
FreeEnrollment(f) ==
  /\ f.op = "enroll" /\ f.pc = "user" /\ f.pid = NoPid
  /\ f.cid \in DOMAIN courses
  /\ courses[f.cid].isPublished
  /\ courses[f.cid].price = 0
  /\ f.uid \in DOMAIN users
  /\ ProgressOf(f.uid, f.cid) = {}

\* C10: free enrollment.  An enroll request without payment reference by an
\* existing user with no progress record for a published course of price 0
\* writes the user's progress record for the course with 0 percent and no
\* completed module, then raises that course's enrollmentCount by exactly 1,
\* leaves every other course as it was, and answers with success.
C10_FreeEnrollment ==
  [][\A f \in Frames :
       /\ (EnrollAfterCourse(f) /\ f.cid \in DOMAIN courses /\ courses[f.cid].isPublished) =>
            /\ Frames' = {[f EXCEPT !.pc = "user", !.ufound = f.uid \in DOMAIN users]}
            /\ UNCHANGED <<users, courses, last>>
       /\ (EnrollAfterUser(f) /\ FreeEnrollment(f)) =>
            /\ users' = [users EXCEPT ![f.uid].progress =
                           Append(@, [courseId |-> f.cid, enrolledAt |-> now,
                                      completedModules |-> 0, progressPercentage |-> 0,
                                      lastAccessedAt |-> now]),
                                  ![f.uid].updatedAt = now]
            /\ courses' = courses
            /\ Frames' = {[f EXCEPT !.pc = "increment"]}
       /\ EnrollIncrement(f) =>
            /\ f.cid \in DOMAIN courses
            /\ courses' = [courses EXCEPT ![f.cid].enrollmentCount = @ + 1,
                                          ![f.cid].updatedAt = now]
            /\ users' = users
            /\ Answers(f)
            /\ last'.op = "enroll" /\ last'.code = 200]_vars

\* a free enrollment has just been answered with success: the course's count
\* went from 0 to 1 and the user holds the fresh progress record
C10_Witness ==
  /\ last = Response("enroll", 200, "Enrolled in course successfully")
  /\ \E p \in enrolledOk :
       /\ p[2] \in DOMAIN courses
       /\ courses[p[2]].price = 0
       /\ courses[p[2]].enrollmentCount = 1
       /\ p[1] \in DOMAIN users
       /\ \E i \in ProgressOf(p[1], p[2]) :
            /\ users[p[1]].progress[i].completedModules = 0
            /\ users[p[1]].progress[i].progressPercentage = 0

\* the caller is allowed to manage the course: its instructor, or an admin
MayManage(t, c) == t.role = ADMIN \/ (t.role = INSTRUCTOR /\ courses[c].instructorId = t.userId)

\* an instructor who is not the course's instructor
OtherInstructor(t, c) == t.role = INSTRUCTOR /\ courses[c].instructorId # t.userId

Refused(op) == last'.op = op /\ last'.code = 403 /\ courses' = courses

\* what C7 says of update, delete and publish requests on an existing course
ManageRule ==
  /\ last'.op = "updateCourse" =>
       \A t \in Tokens, c \in DOMAIN courses, u \in UpdateBodies :
         UpdateCourse(1, t, c, u) =>
           /\ OtherInstructor(t, c) => Refused("updateCourse")
           /\ MayManage(t, c) => (last'.code = 200 /\ courses' = CourseUpdate(courses, c, u))
  /\ last'.op = "deleteCourse" =>
       \A t \in Tokens, c \in DOMAIN courses :
         DeleteCourse(1, t, c) =>
           /\ OtherInstructor(t, c) => Refused("deleteCourse")
           /\ MayManage(t, c) => (last'.code = 200 /\ courses' = CourseDelete(courses, c))
  /\ last'.op = "publishCourse" =>
       \A t \in Tokens, c \in DOMAIN courses :
         PublishCourse(1, t, c) =>
           /\ OtherInstructor(t, c) => Refused("publishCourse")
           /\ MayManage(t, c) =>
                (last'.code = 200 /\ courses' = CourseUpdate(courses, c, [isPublished |-> TRUE]))

\* the create request of caller t was answered with success and stored a new
\* unpublished course of that caller
Created(t, price, tags) ==
  /\ last'.op = "createCourse" /\ last'.code = 200
  /\ DOMAIN courses' = DOMAIN courses \cup {nextCourse}
  /\ nextCourse \notin DOMAIN courses
  /\ courses'[nextCourse].instructorId = t.userId
  /\ courses'[nextCourse].price = price
  /\ ~courses'[nextCourse].isPublished
  /\ \A c \in DOMAIN courses : courses'[c] = courses[c]

\* C7, as stated: a course-create request by a student is refused with 403
\* and creates no course, and the same request by an instructor or an admin
\* succeeds; an update, delete or publish request by an instructor who is not
\* the course's instructor is refused with 403 and leaves the course unchanged,
\* and the same request by the course's instructor or by an admin succeeds.
C7_CourseAuthorization ==
  [][/\ last'.op = "createCourse" =>
          \A t \in Tokens, p \in Prices, g \in TagSets :
            CreateCourse(1, t, p, g) =>
              IF t.role = STUDENT THEN Refused("createCourse") ELSE Created(t, p, g)
     /\ ManageRule]_vars

\* C7, amended: the create request of an instructor or admin succeeds when the
\* caller's account still exists; with a token of a deleted account it is
\* answered with 404 and creates no course.
C7_CourseAuthorizationOfExistingAccounts ==
  [][/\ last'.op = "createCourse" =>
          \A t \in Tokens, p \in Prices, g \in TagSets :
            CreateCourse(1, t, p, g) =>
              IF t.role = STUDENT THEN Refused("createCourse")
              ELSE IF t.userId \in DOMAIN users THEN Created(t, p, g)
              ELSE last'.code = 404 /\ courses' = courses
     /\ ManageRule]_vars

\* the instructor, who has a course of their own, has just been refused the
\* update of a course of another instructor
C7_Witness ==
  /\ last = Response("updateCourse", 403, "You can only update your own courses")
  /\ \E c \in DOMAIN courses : courses[c].instructorId = 2
  /\ \E c \in DOMAIN courses : courses[c].instructorId # 2

\* caller t may see course record c: it is published, or t is an admin or its instructor
MaySee(t, c) == c.isPublished \/ t.role = ADMIN \/ c.instructorId = t.userId

\* C8: unpublished-course confidentiality.  In every state, for every caller
\* (no or invalid token, student, instructor, admin) and every query, no
\* course in the response of the course listing, of the course search or of
\* get-course-by-id is an unpublished course of which the caller is neither
\* an admin nor the instructor.
C8_UnpublishedHidden ==
  \A t \in Callers :
    /\ \A q \in Queries :
         /\ \A i \in DOMAIN GetAllCoursesData(t, q) : MaySee(t, GetAllCoursesData(t, q)[i])
         /\ \A i \in DOMAIN SearchCoursesData(t, q) : MaySee(t, SearchCoursesData(t, q)[i])
    /\ \A id \in CourseIds :
         \A i \in DOMAIN GetCourseByIdData(t, id) : MaySee(t, GetCourseByIdData(t, id)[i])

\* get-course-by-id has just refused an unpublished course, and the listing
\* of an anonymous caller leaves out a course the admin's listing shows
C8_Witness ==
  /\ last = Response("getCourseById", 403, "Course not available")
  /\ \E c \in DOMAIN courses : ~courses[c].isPublished /\ courses[c].instructorId = 2
  /\ Len(GetAllCoursesData(NoToken, <<>>)) < Len(GetAllCoursesData([userId |-> 1, role |-> ADMIN], <<>>))

\* the status changes the payment life cycle names
ForwardTransitions ==
  {<<PENDING, SUCCEEDED>>, <<PENDING, FAILED>>, <<PENDING, CANCELED>>, <<SUCCEEDED, REFUNDED>>}

\* C11: payment statuses are forward-only.  Every change of a payment's status
\* is Pending to Succeeded, Pending to Failed, Pending to Canceled or
\* Succeeded to Refunded; a Failed, Canceled or Refunded payment never changes
\* status again under confirm, refund and webhook operations.
C11_StatusForwardOnly ==
  [][\A i \in DOMAIN payments :
       payments'[i].status # payments[i].status
         => <<payments[i].status, payments'[i].status>> \in ForwardTransitions]_vars

\* the stores under profile, course and payment updates while the clock runs
StoreSpecNext ==
  \/ Tick
  \/ \E t \in TokensOf({2}), p \in Prices, g \in TagSets : CreateCourse(1, t, p, g)
  \/ \E t \in TokensOf({2}), c \in NewCourseIds, u \in UpdateBodies : UpdateCourse(1, t, c, u)
  \/ \E t \in TokensOf({3}), b \in ProfileBodies : UpdateProfile(1, t, b)
  \/ \E t \in TokensOf({3}) : CreateIntentStart(1, t, 1)
  \/ \E f \in Frames : CreateIntentAfterCourse(f)
  \/ \E f \in Frames, o \in {"created", Throws} : CreateIntentFinish(f, o)
  \/ \E e \in Events : HandleWebhook(1, e)

StoreSpec == Init /\ [][StoreSpecNext]_vars

\* after is before with the fields of partial set and a later update timestamp
RoundTrip(before, after, partial) ==
  /\ DOMAIN after = DOMAIN before \cup DOMAIN partial
  /\ \A k \in DOMAIN partial : after[k] = partial[k]
  /\ \A k \in DOMAIN before \ (DOMAIN partial \cup {"updatedAt"}) : after[k] = before[k]
  /\ after.updatedAt > before.updatedAt

\* C12: store update round-trip (User, Course and Payment stores).  After
\* update(id, partial) on an existing record, findById(id) returns a record
\* whose fields named in partial equal the given values, whose other fields
\* are as before and whose update timestamp is strictly greater than before;
\* update on an unknown id changes nothing.
C12_UpdateRoundTrip ==
  /\ \A id \in CourseIds, u \in UpdateBodies \cup {[isPublished |-> TRUE]} :
       LET after == CourseUpdate(courses, id, u)
       IN IF id \in DOMAIN courses
          THEN /\ RoundTrip(courses[id], after[id], u)
               /\ \A c \in DOMAIN courses \ {id} : after[c] = courses[c]
          ELSE after = courses
  /\ \A id \in 1..(3 + MaxSignups), u \in ProfileBodies :
       LET after == UserUpdate(users, id, u)
       IN IF id \in DOMAIN users
          THEN /\ RoundTrip(users[id], after[id], u)
               /\ \A c \in DOMAIN users \ {id} : after[c] = users[c]
          ELSE after = users
  /\ \A i \in PaymentIds, s \in PaymentStatus :
       LET after == PaymentUpdate(payments, i, [status |-> s])
       IN IF i \in DOMAIN payments
          THEN /\ RoundTrip(payments[i], after[i], [status |-> s])
               /\ \A c \in DOMAIN payments \ {i} : after[c] = payments[c]
          ELSE after = payments

\* course management, thumbnail uploads, rating updates and free enrollments
\* with overlapping handlers
CountSpecNext ==
  \/ \E t \in TokensOf({2}), p \in {0}, g \in TagSets : CreateCourse(MaxInflight, t, p, g)
  \/ \E t \in TokensOf({2}), c \in NewCourseIds, u \in UpdateBodies : UpdateCourse(MaxInflight, t, c, u)
  \/ \E t \in TokensOf({2}), c \in NewCourseIds : PublishCourse(MaxInflight, t, c)
  \/ \E t \in TokensOf({2}), c \in {3} : ThumbnailStart(MaxInflight, t, c)
  \/ \E f \in Frames, o \in {"thumbnail.jpeg", Throws} : ThumbnailFinish(f, o)
  \/ \E c \in NewCourseIds, r \in {DemoRating1} : RateCourse(c, r)
  \/ \E t \in TokensOf({3}), c \in {3} : EnrollStart(MaxInflight, t, c, NoPid)
  \/ \E f \in Frames : EnrollAfterCourse(f)
  \/ \E f \in Frames : EnrollAfterUser(f)
  \/ \E f \in Frames : EnrollIncrement(f)

CountSpec == Init /\ [][CountSpecNext]_vars

\* C13: a course's enrollmentCount never decreases.  In every step of enroll,
\* course update, publish, thumbnail upload and rating update operations on a
\* course that exists before and after the step, overlapping handlers
\* included, the count afterwards is at least the count before.
C13_EnrollmentCountMonotone ==
  [][\A c \in DOMAIN courses \cap DOMAIN courses' :
       courses'[c].enrollmentCount >= courses[c].enrollmentCount]_vars

\* an enrollment was counted on a course and a thumbnail upload then updated
\* the course
C13_Witness ==
  /\ last.op = "uploadThumbnail" /\ last.code = 200
  /\ \E c \in DOMAIN courses :
       /\ courses[c].enrollmentCount > 0
       /\ courses[c].thumbnail = "thumbnail.jpeg"
       /\ <<3, c>> \in enrolledOk

\* course management by every account, thumbnail uploads and free enrollments
PublishSpecNext ==
  \/ \E t \in TokensOf({2}), p \in {0}, g \in TagSets : CreateCourse(1, t, p, g)
  \/ \E t \in Tokens, c \in {1} \cup NewCourseIds, u \in UpdateBodies : UpdateCourse(1, t, c, u)
  \/ \E t \in Tokens, c \in {1} \cup NewCourseIds : PublishCourse(1, t, c)
  \/ \E t \in TokensOf({1}), c \in NewCourseIds : DeleteCourse(1, t, c)
  \/ \E t \in Tokens, c \in NewCourseIds : ThumbnailStart(1, t, c)
  \/ \E f \in Frames, o \in {"thumbnail.jpeg", Throws} : ThumbnailFinish(f, o)
  \/ \E t \in TokensOf({3}), c \in NewCourseIds : EnrollStart(1, t, c, NoPid)
  \/ \E f \in Frames : EnrollAfterCourse(f)
  \/ \E f \in Frames : EnrollAfterUser(f)
  \/ \E f \in Frames : EnrollIncrement(f)

PublishSpec == Init /\ [][PublishSpecNext]_vars

\* C14: course publication is irreversible and authorized.  A draft course
\* becomes published only in the step of a publish request that succeeds and
\* was made by the course's instructor or an admin; a published course is
\* published in every later state in which it exists, whatever update,
\* thumbnail upload, enroll or other operation runs; a new course is a draft.
C14_PublicationIrreversible ==
  [][/\ \A c \in DOMAIN courses \cap DOMAIN courses' :
          /\ courses[c].isPublished => courses'[c].isPublished
          /\ (~courses[c].isPublished /\ courses'[c].isPublished) =>
               /\ last' = Response("publishCourse", 200, "Course published successfully")
               /\ \E t \in Tokens :
                    /\ PublishCourse(1, t, c)
                    /\ t.role = ADMIN \/ (t.role = INSTRUCTOR /\ courses[c].instructorId = t.userId)
     /\ \A c \in DOMAIN courses' \ DOMAIN courses : ~courses'[c].isPublished]_vars

\* a course created as a draft was published by its instructor and has since
\* been updated and enrolled in, and is still published
C14_Witness ==
  /\ last.op = "updateCourse" /\ last.code = 200
  /\ \E c \in NewCourseIds \cap DOMAIN courses :
       /\ courses[c].isPublished
       /\ courses[c].instructorId = 2
       /\ courses[c].enrollmentCount > 0
       /\ courses[c].price = 2500

\* the student asks for payment intents on demo courses and on a course the
\* instructor creates and publishes, and the provider reports payments
IntentSpecNext ==
  \/ \E t \in TokensOf({2}), p \in Prices, g \in TagSets : CreateCourse(1, t, p, g)
  \/ \E t \in TokensOf({2}), c \in NewCourseIds : PublishCourse(1, t, c)
  \/ \E t \in TokensOf({3}), c \in CourseIds : CreateIntentStart(1, t, c)
  \/ \E f \in Frames : CreateIntentAfterCourse(f)
  \/ \E f \in Frames, o \in {"created", Throws} : CreateIntentFinish(f, o)
  \/ \E e \in Events : HandleWebhook(1, e)

IntentSpec == Init /\ [][IntentSpecNext]_vars

\* the course of the request is missing, a draft, free or already bought by the caller
NotPurchasable(f) ==
  \/ f.cid \notin DOMAIN courses
  \/ ~courses[f.cid].isPublished
  \/ courses[f.cid].price = 0
  \/ \E i \in DOMAIN payments :
       payments[i].userId = f.uid /\ payments[i].courseId = f.cid /\ payments[i].status = SUCCEEDED

\* C15: createIntent(courseId, userId) fails without creating a payment record
\* when the course does not exist, is unpublished, is free or already has a
\* Succeeded payment by this user, and when the provider call fails; otherwise
\* it creates exactly one new record with status Pending, the caller's userId,
\* the given courseId and the provider's transaction id.
C15_CreateIntent ==
  [][\A f \in Frames :
       /\ CreateIntentAfterCourse(f) =>
            /\ payments' = payments
            /\ NotPurchasable(f) =>
                 /\ inflight' = Finish(f)
                 /\ last'.op = "createIntent" /\ last'.code \in {400, 404, 409}
            /\ ~NotPurchasable(f) =>
                 /\ last' = last
                 /\ \E g \in BagToSet(inflight') : g.op = "createIntent" /\ g.pc = "provider"
       /\ CreateIntentFinish(f, Throws) =>
            payments' = payments /\ last'.op = "createIntent" /\ last'.code = 500
       /\ CreateIntentFinish(f, "created") =>
            /\ last'.op = "createIntent" /\ last'.code = 200
            /\ Len(payments') = Len(payments) + 1
            /\ SubSeq(payments', 1, Len(payments)) = payments
            /\ LET new == payments'[Len(payments')]
               IN /\ new.status = PENDING
                  /\ new.userId = f.uid
                  /\ new.courseId = f.cid
                  /\ \A i \in DOMAIN payments :
                       payments[i].stripePaymentIntentId # new.stripePaymentIntentId]_vars

\* an intent was opened for a paid course the instructor created and
\* published, after an earlier payment of the student had succeeded
C15_Witness ==
  /\ last.op = "createIntent" /\ last.code = 200
  /\ \E i, j \in DOMAIN payments :
       /\ payments[i].status = PENDING
       /\ payments[i].courseId \in NewCourseIds
       /\ payments[i].userId = 3
       /\ payments[j].status = SUCCEEDED

\* the student's payments for the first demo course, with refund requests by
\* every account
RefundSpecNext ==
  \/ \E t \in TokensOf({3}) : CreateIntentStart(1, t, 1)
  \/ \E f \in Frames : CreateIntentAfterCourse(f)
  \/ \E f \in Frames, o \in {"created"} : CreateIntentFinish(f, o)
  \/ \E t \in TokensOf({3}), p \in PaymentIds : ConfirmStart(1, t, p)
  \/ \E f \in Frames, o \in {"succeeded", "canceled"} : ConfirmFinish(f, o)
  \/ \E t \in Tokens, p \in PaymentIds : RefundStart(1, t, p)
  \/ \E f \in Frames, o \in RefundStatuses \cup {Throws} : RefundFinish(f, o)

RefundSpec == Init /\ [][RefundSpecNext]_vars

\* C16: refund is valid only from Succeeded.  A refund request on a payment
\* whose status is not Succeeded (or that is unknown) is rejected and changes
\* no status; on a Succeeded payment the status becomes Refunded exactly when
\* the provider reports refund success, and stays Succeeded when the provider
\* reports failure or throws.
C16_RefundOnlyFromSucceeded ==
  [][last'.op = "refund" =>
       /\ \A t \in Tokens, p \in PaymentIds :
            RefundStart(1, t, p) =>
              LET i == FindByStripeId(payments, p)
              IN /\ payments' = payments
                 /\ (i = 0 \/ payments[i].status # SUCCEEDED) =>
                      /\ inflight' = inflight
                      /\ last'.code \in {400, 403, 404}
       /\ \A f \in Frames, o \in RefundStatuses \cup {Throws} :
            RefundFinish(f, o) =>
              /\ payments[f.pid].status = SUCCEEDED
              /\ \A j \in DOMAIN payments \ {f.pid} : payments'[j] = payments[j]
              /\ IF o = "succeeded"
                 THEN payments'[f.pid].status = REFUNDED /\ last'.code = 200
                 ELSE payments'[f.pid].status = SUCCEEDED /\ last'.code = 500]_vars

\* a refund was processed and the payment is Refunded, while another payment
\* of the student is not Succeeded
C16_Witness ==
  /\ last.op = "refund" /\ last.code = 200
  /\ \E i, j \in DOMAIN payments :
       /\ payments[i].status = REFUNDED
       /\ payments[j].status \in {PENDING, CANCELED}

\* accounts sign up and requests pass the ownership gate
GateSpecNext ==
  \/ \E e \in Emails, r \in SignupRoles : SignupStart(1, e, r)
  \/ \E f \in Frames : SignupCreate(f)
  \/ \E t \in Tokens, param \in ParamNames, r \in 1..(3 + MaxSignups) : GateStart(1, t, param, r)
  \/ \E f \in Frames : GateFinish(f)

GateSpec == Init /\ [][GateSpecNext]_vars

\* C17: requireOwnership rejects with 403 every authenticated caller who is
\* not an admin and whose id differs from the id of the resource owner named
\* by the configured request parameter, for every parameter name the gate is
\* constructed with; it lets the request through only for an admin or for
\* the owner.
C17_RequireOwnership ==
  [][\A f \in Frames :
       GateFinish(f) =>
         IF f.role = ADMIN \/ f.uid = f.cid
         THEN last'.code = 0
         ELSE last'.code = 403]_vars

\* accounts sign up, update their profile, refresh their tokens and are deleted
RefreshSpecNext ==
  \/ \E e \in Emails, r \in SignupRoles : SignupStart(1, e, r)
  \/ \E f \in Frames : SignupCreate(f)
  \/ \E t \in TokensOf({3}), b \in ProfileBodies : UpdateProfile(1, t, b)
  \/ \E t \in Tokens \ TokensOf({1, 2}) : DeleteAccount(1, t)
  \/ \E t \in Callers : Refresh(1, t)

RefreshSpec == Init /\ [][RefreshSpecNext]_vars

\* C18: refresh with a correctly signed, unexpired refresh token succeeds
\* exactly when the token's user is in the user store.  After the account is
\* deleted every refresh with a token issued earlier fails and issues no
\* tokens; while the user exists the same token can be presented again and
\* again (a refresh neither revokes a token nor changes a store), each time
\* yielding a pair built from the user's current id, email and role.
C18_RefreshNeedsExistingUser ==
  /\ [](\A t \in Tokens :
          IF t.userId \in DOMAIN users
          THEN /\ RefreshCode(t) = 200
               /\ RefreshData(t) = [userId |-> t.userId, email |-> users[t.userId].email,
                                    role |-> users[t.userId].role]
          ELSE RefreshCode(t) = 401 /\ RefreshData(t) = <<>>)
  /\ [][\A t \in Tokens :
          Refresh(1, t) =>
            /\ last'.op = "refresh"
            /\ last'.code = (IF t.userId \in DOMAIN users THEN 200 ELSE 401)
            /\ issued' = issued /\ users' = users]_vars

\* a refresh with the token of an account that signed up and was then deleted
\* has been refused, while another signed-up account still exists
C18_Witness ==
  /\ last = Response("refresh", 401, "User not found")
  /\ \E u \in DOMAIN issued \ DOMAIN users : u > 3
  /\ \E u \in DOMAIN users : u > 3

\* a catalogue of n courses of the instructor, created one per millisecond,
\* of which those in drafts are not published
Catalogue(n, drafts) ==
  [i \in 1..n |->
     [title |-> NewTitle, instructorId |-> 2, price |-> 2500, isPublished |-> i \notin drafts,
      enrollmentCount |-> 0, tags |-> {"dev"}, thumbnail |-> "photo-270348.jpeg",
      rating |-> 0, createdAt |-> i, updatedAt |-> i]]

PageInit ==
  \E n \in 0..MaxListed, drafts \in SUBSET {1, 2} :
    /\ users = DemoUsers
    /\ courses = Catalogue(n, drafts)
    /\ payments = <<>>
    /\ issued = [u \in DOMAIN DemoUsers |-> DemoUsers[u].role]
    /\ nextCourse = n + 1
    /\ inflight = EmptyBag
    /\ last = Response("none", 0, "")
    /\ enrolledOk = {}
    /\ now = n + 1

\* the queries of the listing: page 1 to 3 with a limit of 1, 12 or 100, and
\* the defaults
PageQueries ==
  {<<>>} \cup {[page |-> p, limit |-> l] : p \in 1..3, l \in {1, 12, 100}}

\* the catalogue is listed, and the instructor publishes drafts
PageSpecNext ==
  \/ \E t \in Callers, q \in PageQueries : GetAllCourses(1, t, q)
  \/ \E t \in TokensOf({2}), c \in {1, 2} : PublishCourse(1, t, c)

PageSpec == PageInit /\ [][PageSpecNext]_vars

\* the courses the caller may see in the listing, newest first
Visible(t) ==
  LET Seen(c) == c.isPublished \/ t.role = ADMIN
  IN SelectSeq(Reverse(Values(courses, DOMAIN courses)), Seen)

Min(a, b) == IF a < b THEN a ELSE b

\* C19: pagination of the course listing.  For page p >= 1, limit l in 1..100
\* and N courses visible to the caller, the response holds exactly the records
\* at positions (p-1)*l+1 through min(p*l, N) of the ordered result (none
\* when (p-1)*l >= N), and pagination reports total = N, totalPages =
\* ceil(N/l), hasNext = (p < totalPages) and hasPrev = (p > 1); p=2, l=12,
\* N=25 gives records 13-24, totalPages 3, hasNext and hasPrev true.
C19_Pagination ==
  \A t \in Callers, q \in PageQueries :
    LET p == Field(q, "page", 1)
        l == Field(q, "limit", 12)
        N == Len(Visible(t))
        data == GetAllCoursesData(t, q)
        info == GetAllCoursesPagination(t, q)
        first == (p - 1) * l + 1
        final == Min(p * l, N)
    IN /\ GetAllCoursesCode(t, q) = 200
       /\ Len(data) = (IF first > N THEN 0 ELSE final - first + 1)
       /\ \A i \in 1..Len(data) : data[i] = Visible(t)[first + i - 1]
       /\ info.total = N
       /\ info.totalPages * l >= N /\ (info.totalPages - 1) * l < N
       /\ info.hasNext = (p < info.totalPages)
       /\ info.hasPrev = (p > 1)
       /\ (p = 2 /\ l = 12 /\ N = 25) =>
            /\ Len(data) = 12
            /\ data[1] = Visible(t)[13] /\ data[12] = Visible(t)[24]
            /\ info.totalPages = 3 /\ info.hasNext /\ info.hasPrev

\* the listing was answered while 25 courses are visible to a caller without
\* a token: page 2 of 12 holds the records 13 to 24
C19_Witness ==
  /\ last = Response("getAllCourses", 200, "Courses retrieved successfully")
  /\ Len(Visible(NoToken)) = 25
  /\ Len(GetAllCoursesData(NoToken, [page |-> 2, limit |-> 12])) = 12
  /\ GetAllCoursesPagination(NoToken, [page |-> 2, limit |-> 12]).totalPages = 3

\* accounts sign up, log in, refresh their tokens and read and update their profile
ProfileSpecNext ==
  \/ \E e \in Emails, r \in SignupRoles : SignupStart(1, e, r)
  \/ \E f \in Frames : SignupCreate(f)
  \/ \E e \in Emails, p \in LoginPasswords : LoginStart(1, e, p)
  \/ \E f \in Frames : LoginFinish(f)
  \/ \E t \in Tokens \ TokensOf({1, 2}) : Refresh(1, t)
  \/ \E t \in Tokens \ TokensOf({1, 2}) : GetProfile(1, t)
  \/ \E t \in Tokens \ TokensOf({1, 2}), b \in ProfileBodies : UpdateProfile(1, t, b)

ProfileSpec == Init /\ [][ProfileSpecNext]_vars

\* the object has no password field and none of its text fields is a stored hash
NoHash(rec) ==
  /\ "password" \notin DOMAIN rec
  /\ \A k \in DOMAIN rec \cap {"email", "role", "bio"} :
       rec[k] \notin {Hash(p) : p \in LoginPasswords}

\* the data block of a response is free of password hashes
DataWithoutHash(data) ==
  /\ "user" \in DOMAIN data => NoHash(data.user)
  /\ "accessToken" \in DOMAIN data => NoHash(data.accessToken) /\ NoHash(data.refreshToken)
  /\ NoHash(data)

\* C20: signup without a role creates the user with role Student, and no
\* response of signup, login, refresh, get-profile or update-profile contains
\* the user's stored password hash.
C20_StudentByDefaultAndNoHash ==
  /\ []("data" \in DOMAIN last => DataWithoutHash(last.data))
  /\ [][/\ \A e \in Emails :
            (SignupStart(1, e, Omitted) /\ inflight' # inflight) =>
              \E g \in BagToSet(inflight') : g.op = "signup" /\ g.email = e /\ g.role = STUDENT
        /\ \A f \in Frames :
            SignupCreate(f) =>
              \E id \in DOMAIN users' \ DOMAIN users :
                /\ users'[id].email = f.email
                /\ users'[id].role = f.role
                /\ users'[id].password = Hash(SignupPassword)
                /\ last'.data.user.role = f.role
                /\ last'.data.user.id = id]_vars

\* a signup without a role was answered with a Student profile, and the
\* stored record holds the password hash
C20_Witness ==
  /\ last.op = "signup" /\ last.code = 200
  /\ last.data.user.role = STUDENT
  /\ \E id \in DOMAIN users :
       /\ id = last.data.user.id
       /\ users[id].role = STUDENT
       /\ users[id].password = Hash(SignupPassword)

\* the instructor creates, reprices, publishes and deletes a course; the student
\* enrolls in it, opens payment intents for it and asks for progress and
\* payment history; both may delete their account
OrphanSpecNext ==
  \/ \E t \in TokensOf({2}), p \in Prices, g \in TagSets : CreateCourse(1, t, p, g)
  \/ \E t \in TokensOf({2}), c \in NewCourseIds, u \in UpdateBodies : UpdateCourse(1, t, c, u)
  \/ \E t \in TokensOf({2}), c \in NewCourseIds : PublishCourse(1, t, c)
  \/ \E t \in TokensOf({2}), c \in NewCourseIds : DeleteCourse(1, t, c)
  \/ \E t \in TokensOf({3}), c \in NewCourseIds : EnrollStart(1, t, c, NoPid)
  \/ \E f \in Frames : EnrollAfterCourse(f)
  \/ \E f \in Frames : EnrollAfterUser(f)
  \/ \E f \in Frames : EnrollIncrement(f)
  \/ \E t \in TokensOf({3}), c \in NewCourseIds : CreateIntentStart(1, t, c)
  \/ \E f \in Frames : CreateIntentAfterCourse(f)
  \/ \E f \in Frames, o \in {"created", Throws} : CreateIntentFinish(f, o)
  \/ \E t \in TokensOf({2, 3}) : DeleteAccount(1, t)
  \/ \E t \in TokensOf({2, 3}) : GetProgress(1, t)
  \/ \E t \in TokensOf({2, 3}) : GetPaymentHistory(1, t)

OrphanSpec == Init /\ [][OrphanSpecNext]_vars

\* the label a consumer shows for a course id: the stored title, or the
\* fallback when no such course is stored
Label(id) == IF id \in DOMAIN courses THEN courses[id].title ELSE "Unknown Course"

\* C21: no cascade, and dangling references are tolerated.  deleteAccount
\* removes exactly the caller's user record and leaves the course store and
\* the payment store unchanged; afterwards, and after a course is deleted, the
\* progress query of an existing user and the payment-history query of every
\* caller still succeed, list every record of the caller and label the
\* records of a missing course with the fallback label.
C21_NoCascadeAndFallback ==
  /\ [](\A t \in Tokens :
          /\ Len(GetPaymentHistoryData(t)) =
               Cardinality({i \in DOMAIN payments : payments[i].userId = t.userId})
          /\ \A k \in DOMAIN GetPaymentHistoryData(t) :
               GetPaymentHistoryData(t)[k].courseTitle = Label(GetPaymentHistoryData(t)[k].courseId)
          /\ t.userId \in DOMAIN users =>
               /\ GetProgressCode(t) = 200
               /\ Len(GetProgressData(t)) = Len(users[t.userId].progress)
               /\ \A k \in DOMAIN GetProgressData(t) :
                    /\ GetProgressData(t)[k].courseId = users[t.userId].progress[k].courseId
                    /\ GetProgressData(t)[k].courseTitle = Label(GetProgressData(t)[k].courseId))
  /\ [][/\ last'.op = "deleteAccount" =>
            /\ courses' = courses /\ payments' = payments
            /\ \A t \in Tokens :
                 DeleteAccount(1, t) =>
                   /\ users' = [u \in DOMAIN users \ {t.userId} |-> users[u]]
                   /\ last'.code = (IF t.userId \in DOMAIN users THEN 200 ELSE 404)
        /\ last'.op = "getPaymentHistory" =>
            \A t \in Tokens :
              GetPaymentHistory(1, t) =>
                last'.code = 200 /\ last'.data = GetPaymentHistoryData(t)
        /\ last'.op = "getProgress" =>
            \A t \in Tokens :
              (GetProgress(1, t) /\ t.userId \in DOMAIN users) =>
                last'.code = 200 /\ last'.data = GetProgressData(t)]_vars

\* the payment history was answered with the fallback label for a deleted
\* course, the student holds a progress record of a deleted course, and the
\* instructor's account has been deleted
C21_Witness ==
  /\ last.op = "getPaymentHistory" /\ last.code = 200
  /\ \E k \in DOMAIN last.data : last.data[k].courseTitle = "Unknown Course"
  /\ 3 \in DOMAIN users
  /\ \E i \in DOMAIN users[3].progress : users[3].progress[i].courseId \notin DOMAIN courses
  /\ 2 \notin DOMAIN users

\* the body of a response is the envelope: it says whether the request
\* succeeded, and a failure carries its error
Enveloped(r) ==
  /\ "success" \in DOMAIN r.body
  /\ r.body.success = (r.code = 200)
  /\ ~r.body.success => "error" \in DOMAIN r.body

\* C22: every handler invocation ends with one response in the envelope
\* format {success, data?/error?, ...}.  Every response sent is an envelope,
\* also when a collaborator call throws, for every handler including the
\* payment webhook; and a suspended handler leaves with a response of its own.
C22_EnvelopeAlways ==
  /\ [](last.op # "none" => Enveloped(last))
  /\ [][\A f \in Frames : inflight' = Finish(f) => last'.op = f.op]_vars

\* one provider outcome of confirm for each branch of the status switch, and
\* the failure of the call
ConfirmOutcomes == {"succeeded", "processing", "canceled", "requires_capture", Throws}

\* the student's payments for the first demo course: confirm requests by the
\* student and the admin, which may overlap each other and the provider's
\* events, and refunds
ConfirmSpecNext ==
  \/ \E t \in TokensOf({3}) : CreateIntentStart(MaxInflight, t, 1)
  \/ \E f \in Frames : CreateIntentAfterCourse(f)
  \/ \E f \in Frames, o \in {"created"} : CreateIntentFinish(f, o)
  \/ \E t \in TokensOf({1, 3}), p \in PaymentIds : ConfirmStart(MaxInflight, t, p)
  \/ \E f \in Frames, o \in ConfirmOutcomes : ConfirmFinish(f, o)
  \/ \E t \in TokensOf({3}), p \in PaymentIds : RefundStart(1, t, p)
  \/ \E f \in Frames, o \in {"succeeded"} : RefundFinish(f, o)
  \/ \E e \in {v \in Events : v.verified /\ v.id = 1} : HandleWebhook(MaxInflight, e)

ConfirmSpec == Init /\ [][ConfirmSpecNext]_vars

\* C23: confirm(intentId) by the payment's owner leaves the local status
\* equal to the mapped status the provider reports, whatever the status was
\* before, and changes no other payment; confirm by another caller is answered
\* with 403 and confirm of an unknown intent with 404, both without changing a
\* payment or calling the provider; when the provider call fails the answer is
\* 500 and no payment changes.
C23_ConfirmMirrorsProvider ==
  [][last'.op = "confirm" =>
       /\ \A t \in Tokens, p \in PaymentIds :
            ConfirmStart(MaxInflight, t, p) =>
              LET i == FindByStripeId(payments, p)
              IN /\ payments' = payments
                 /\ i = 0 => (last'.code = 404 /\ inflight' = inflight)
                 /\ (i > 0 /\ payments[i].userId # t.userId) =>
                      (last'.code = 403 /\ inflight' = inflight)
       /\ \A f \in Frames, o \in ConfirmOutcomes :
            ConfirmFinish(f, o) =>
              IF o = Throws
              THEN payments' = payments /\ last'.code = 500
              ELSE /\ f.pid \in DOMAIN payments
                   /\ payments[f.pid].userId = f.uid
                   /\ Len(payments') = Len(payments)
                   /\ payments'[f.pid].status = ConfirmStatus(o)
                   /\ \A j \in DOMAIN payments \ {f.pid} : payments'[j] = payments[j]
                   /\ last'.code = (IF ConfirmStatus(o) = SUCCEEDED THEN 200 ELSE 400)]_vars

\* a confirm has just been answered with the provider's cancellation, the
\* payment is Canceled and another payment of the student is Refunded
C23_Witness ==
  /\ last = Response("confirm", 400, "Payment canceled")
  /\ \E i, j \in DOMAIN payments :
       /\ payments[i].status = CANCELED
       /\ payments[j].status = REFUNDED

\* the provider outcome an event type reports
EventOutcome(type) ==
  CASE type = "payment_intent.succeeded" -> "succeeded"
    [] type = "payment_intent.payment_failed" -> "failed"
    [] type = "payment_intent.canceled" -> "canceled"

\* C24: the webhook applies the status mapping of confirm, without a bearer
\* token.  For a known payment and each provider outcome (succeeded, failed,
\* canceled), handling the correctly signed event leaves the payment's status
\* equal to the status confirm persists for that outcome; an event whose
\* signature does not verify is answered with 400 and changes no payment.
C24_WebhookSameMapping ==
  /\ [](\A e \in Events :
          (e.verified /\ FindByStripeId(payments, e.id) > 0) =>
            WebhookApply(payments, e)[FindByStripeId(payments, e.id)].status
              = ConfirmStatus(EventOutcome(e.type)))
  /\ [][\A e \in Events :
          HandleWebhook(1, e) =>
            IF e.verified
            THEN payments' = WebhookApply(payments, e) /\ last'.code = 200
            ELSE payments' = payments /\ last'.code = 400]_vars

\* the courses user u holds a progress record for, in store s
ProgressCourses(s, u) == {s[u].progress[i].courseId : i \in DOMAIN s[u].progress}

\* C25: a CourseProgress record comes into existence only through a successful
\* enrollment.  Every progress record a user holds was written by an enroll
\* call of that user on that course that was (or is about to be) answered with
\* success, and a progress-update request only changes a record that exists:
\* it never adds a record for a course the user is not enrolled in.
C25_ProgressOnlyByEnrollment ==
  /\ [](\A u \in DOMAIN users : \A c \in ProgressCourses(users, u) :
          \/ <<u, c>> \in enrolledOk
          \/ \E f \in Frames : f.op = "enroll" /\ f.pc = "increment" /\ f.uid = u /\ f.cid = c)
  /\ [][last'.op = "updateProgress" =>
          \A t \in Tokens, c \in CourseIds, b \in ProgressBodies :
            UpdateProgress(1, t, c, b) =>
              \A u \in DOMAIN users : ProgressCourses(users', u) = ProgressCourses(users, u)]_vars

\* the student pays for the first demo course and enrolls in it; the enroll
\* and progress-update requests for the course may overlap
RaceSpecNext ==
  \/ \E t \in TokensOf({3}) : CreateIntentStart(1, t, 1)
  \/ \E f \in Frames : CreateIntentAfterCourse(f)
  \/ \E f \in Frames, o \in {"created"} : CreateIntentFinish(f, o)
  \/ \E e \in {v \in Events : v.verified /\ v.type = "payment_intent.succeeded" /\ v.id = 1} :
       HandleWebhook(1, e)
  \/ \E t \in TokensOf({3}), p \in {NoPid, 1} : EnrollStart(MaxInflight, t, 1, p)
  \/ \E f \in Frames : EnrollAfterCourse(f)
  \/ \E f \in Frames : EnrollAfterUser(f)
  \/ \E f \in Frames : EnrollWrite(f)
  \/ \E f \in Frames : EnrollIncrement(f)
  \/ \E t \in TokensOf({3}), b \in ProgressBodies : UpdateProgress(MaxInflight, t, 1, b)

RaceSpec == Init /\ [][RaceSpecNext]_vars

\* C26: at most one CourseProgress per (user, course) pair exists in every
\* reachable state, also when two enroll requests, or an enroll and a
\* progress-update request, for the same pair interleave at the handlers'
\* await points.
C26_OneProgressPerPair ==
  \A u \in DOMAIN users :
    \A i, j \in DOMAIN users[u].progress :
      users[u].progress[i].courseId = users[u].progress[j].courseId => i = j

\* two enroll requests of the student for the paid course overlapped and both
\* wrote: the course counts two enrollments and the student holds one record
C26_Witness ==
  /\ courses[1].enrollmentCount = DemoEnrollment1 + 2
  /\ Cardinality(ProgressOf(3, 1)) = 1
  /\ inflight = EmptyBag

\* the bodies of PUT /users/progress/:courseId, which no schema validates:
\* each field supplied or omitted, and a percentage above 100
AnyProgressBodies ==
  [completedModules : {Undefined, 1}, currentModule : {Undefined, 1},
   progressPercentage : {Undefined, 50, 150}]

\* the admin publishes a free course; the student enrolls in it and reports
\* progress while the clock runs
ProgressSpecNext ==
  \/ Tick
  \/ \E t \in TokensOf({1}), p \in {0}, g \in TagSets : CreateCourse(1, t, p, g)
  \/ \E t \in TokensOf({1}), c \in NewCourseIds : PublishCourse(1, t, c)
  \/ \E t \in TokensOf({3}), c \in NewCourseIds : EnrollStart(1, t, c, NoPid)
  \/ \E f \in Frames : EnrollAfterCourse(f)
  \/ \E f \in Frames : EnrollAfterUser(f)
  \/ \E f \in Frames : EnrollIncrement(f)
  \/ \E t \in TokensOf({3}), c \in NewCourseIds, b \in AnyProgressBodies : UpdateProgress(1, t, c, b)

ProgressSpec == Init /\ [][ProgressSpecNext]_vars

\* C27: every CourseProgress record in every reachable state has a percentage
\* complete that is a number between 0 and 100 inclusive, whatever values the
\* enroll and progress-update requests supply or omit.
C27_PercentageInRange ==
  \A u \in DOMAIN users :
    \A i \in DOMAIN users[u].progress :
      users[u].progress[i].progressPercentage \in 0..100

\* the value of a field of a record, undefined when the record has no such field
Value(rec, k) == IF k \in DOMAIN rec THEN rec[k] ELSE Undefined

\* the fields a progress-update request may supply
ProgressFields == {"completedModules", "currentModule", "progressPercentage"}

\* C28: a progress-update request changes only the fields it supplies.  For an
\* existing CourseProgress, a field the body omits keeps its previous value, a
\* supplied field takes the given value, lastAccessedAt becomes the time of
\* the request, and enrolledAt and courseId never change.
C28_UpdateOnlySuppliedFields ==
  [][last'.op = "updateProgress" =>
       \A t \in Tokens, c \in CourseIds, b \in AnyProgressBodies :
         (/\ UpdateProgress(1, t, c, b)
          /\ t.userId \in DOMAIN users
          /\ ProgressIndex(users[t.userId].progress, c) > 0) =>
           LET i == ProgressIndex(users[t.userId].progress, c)
               old == users[t.userId].progress[i]
               new == users'[t.userId].progress[i]
           IN /\ Len(users'[t.userId].progress) = Len(users[t.userId].progress)
              /\ \A k \in ProgressFields :
                   Value(new, k) = (IF b[k] = Undefined THEN Value(old, k) ELSE b[k])
              /\ new.lastAccessedAt = now
              /\ new.enrolledAt = old.enrolledAt
              /\ new.courseId = old.courseId]_vars

\* every mutating endpoint, called by the instructor one request at a time,
\* before and after the instructor deletes the account
GhostSpecNext ==
  \/ \E t \in TokensOf({2}), p \in Prices, g \in TagSets : CreateCourse(1, t, p, g)
  \/ \E t \in TokensOf({2}), c \in NewCourseIds, u \in UpdateBodies : UpdateCourse(1, t, c, u)
  \/ \E t \in TokensOf({2}), c \in NewCourseIds : DeleteCourse(1, t, c)
  \/ \E t \in TokensOf({2}), c \in NewCourseIds : PublishCourse(1, t, c)
  \/ \E t \in TokensOf({2}), c \in NewCourseIds : EnrollStart(1, t, c, NoPid)
  \/ \E f \in Frames : EnrollAfterCourse(f)
  \/ \E f \in Frames : EnrollAfterUser(f)
  \/ \E f \in Frames : EnrollIncrement(f)
  \/ \E t \in TokensOf({2}), c \in NewCourseIds, b \in ProgressBodies : UpdateProgress(1, t, c, b)
  \/ \E t \in TokensOf({2}) : CreateIntentStart(1, t, 1)
  \/ \E f \in Frames : CreateIntentAfterCourse(f)
  \/ \E f \in Frames, o \in {"created", Throws} : CreateIntentFinish(f, o)
  \/ \E t \in TokensOf({2}), p \in PaymentIds : ConfirmStart(1, t, p)
  \/ \E f \in Frames, o \in {"succeeded", "canceled", Throws} : ConfirmFinish(f, o)
  \/ \E t \in TokensOf({2}), p \in PaymentIds : RefundStart(1, t, p)
  \/ \E f \in Frames, o \in {"succeeded", "failed"} : RefundFinish(f, o)
  \/ \E t \in TokensOf({2}), b \in ProfileBodies : UpdateProfile(1, t, b)
  \/ \E t \in TokensOf({2}) : DeleteAccount(1, t)

GhostSpec == Init /\ [][GhostSpecNext]_vars

\* a step of a mutating endpoint called with token t (requests are handled
\* one at a time, so a suspended handler of t's user was called with t)
MutatingStep(t) ==
  \/ \E p \in Prices, g \in TagSets : CreateCourse(1, t, p, g)
  \/ \E c \in CourseIds, u \in UpdateBodies : UpdateCourse(1, t, c, u)
  \/ \E c \in CourseIds : DeleteCourse(1, t, c) \/ PublishCourse(1, t, c)
  \/ \E c \in CourseIds, b \in ProgressBodies : UpdateProgress(1, t, c, b)
  \/ \E b \in ProfileBodies : UpdateProfile(1, t, b)
  \/ \E f \in Frames :
       /\ f.uid = t.userId
       /\ \/ EnrollStep(f)
          \/ CreateIntentAfterCourse(f)
          \/ \E o \in {"created", Throws} : CreateIntentFinish(f, o)
          \/ \E o \in StripeStatuses \cup {Throws} : ConfirmFinish(f, o)
          \/ \E o \in RefundStatuses \cup {Throws} : RefundFinish(f, o)

\* C29: after a user's account is deleted, no request carrying an access
\* token issued to that user before the deletion changes any store: course
\* create, update, delete and publish, enroll, progress update, payment
\* create-intent, confirm and refund, and profile update, called with such a
\* token, leave the user, course and payment stores unchanged.
C29_DeletedAccountTokensInert ==
  [][\A t \in Tokens :
       (t.userId \notin DOMAIN users /\ MutatingStep(t)) =>
         (users' = users /\ courses' = courses /\ payments' = payments)]_vars

\* the enrollmentCount course c was stored with
InitialCount(c) == IF c \in DOMAIN DemoCourses THEN DemoCourses[c].enrollmentCount ELSE 0

\* C30: a course's enrollmentCount increases at most once per (user, course)
\* pair.  Of the enroll requests of one user for one course, sequential or
\* interleaved at the handler's await points (the paid path awaits the payment
\* lookup between the already-enrolled check and the write), at most one is
\* answered with success, and the count has grown by at most the number of
\* pairs enrolled.
C30_CountOncePerPair ==
  /\ [](\A c \in DOMAIN courses :
          courses[c].enrollmentCount - InitialCount(c)
            <= Cardinality({p \in enrolledOk : p[2] = c}))
  /\ [][\A f \in Frames : EnrollIncrement(f) => <<f.uid, f.cid>> \notin enrolledOk]_vars

====
